---- MODULE Spec2Model ----
(***************************************************************************)
(* State-machine model of the web scraping framework:                      *)
(*   scraper.py  WebScraper.scrape and the content-type dispatch           *)
(*   config.py   ConfigManager (deep merge, file and environment layers,   *)
(*               validation, get and set)                                  *)
(*   exporters.py DataExporter and BatchExporter                           *)
(*   utils.py    clean_text, normalize_url, DataValidator                  *)
(* Each component has its own specification; the variables of the other    *)
(* components rest at their idle values.                                   *)
(***************************************************************************)
EXTENDS Integers, Sequences, FiniteSets, TLC

VARIABLES
    \* ---- WebScraper (scraper.py) ----
    max_retries,    \* self.max_retries
    retry_delay,    \* self.retry_delay
    selectors,      \* keys of self.config['selectors']
    url,            \* argument url of scrape
    method,         \* argument method of scrape
    attempt,        \* loop variable of scrape
    pc,             \* position of scrape: "loop", "sleep", "returned", "raised"
    result,         \* the Record scrape returned
    raised,         \* the exception that left scrape ("" when none)
    events,         \* calls made so far: "req" (_make_request) and "sleep" (time.sleep)
    slept,          \* total time passed to time.sleep
    outcomes,       \* what each attempt ended with: the exception raised, "non200" or "ok"
    lastResp,       \* the response of the attempt that returned 200
    \* ---- ConfigManager._deep_merge (config.py) ----
    mBase,          \* the base mapping
    mUpdate,        \* the update mapping
    mResult,        \* base after the merge
    mPc,            \* "start", "merged"
    \* ---- ConfigManager.__init__ (config.py) ----
    config_source,  \* the override mapping handed to the constructor
    env,            \* the process environment
    config,         \* self.config
    layered,        \* self.config as it was when _validate_config started
    dirs,           \* directories that exist
    cPc,            \* "new", "merged", "env", "ready"; "failed" when __init__ raised
    config_file,    \* the override file handed to the constructor (NoFile: none)
    \* ---- ConfigManager.get / set (config.py) ----
    aConfig,        \* self.config
    aBefore,        \* self.config as it was when the last call started
    aOp,            \* the last call: its name, key_path, argument, return value, exception
    aSets,          \* number of set calls made
    \* ---- DataExporter / BatchExporter (exporters.py) ----
    xConfig,        \* self.config: the keys given and their values
    excel_available,\* EXCEL_AVAILABLE
    docx_available, \* DOCX_AVAILABLE
    files,          \* the files that exist, by path, with what was written to them
    now,            \* the clock, in seconds
    xLog,           \* the calls of DataExporter.export so far, in order
    xOp,            \* the last call made by the client: name, argument, return value, exception
    xBefore,        \* files as they were when the last call started
    xCalls,         \* number of calls made by the client
    xBudget,        \* number of calls the client makes
    \* ---- DataValidator.validate_url_data (utils.py) ----
    max_text_length,\* config extraction.max_text_length
    vData,          \* the argument data
    vOut,           \* the dict validate_url_data returned
    vPc,            \* "new", "validated"
    \* ---- hierarchical rendering of two records (exporters.py) ----
    rA,             \* the first record
    rB,             \* the second record
    rKind,          \* "" before rendering, then "txt" or "docx"
    rOutA,          \* what the renderer wrote for rA
    rOutB,          \* what the renderer wrote for rB
    \* ---- ProgressTracker (utils.py) ----
    total_items,    \* self.total_items
    completed_items,\* self.completed_items
    failed_items,   \* self.failed_items
    start_time,     \* self.start_time
    errors,         \* self.errors
    clock,          \* datetime.now(), in seconds
    tOp,            \* the last call: its name, arguments and return value
    tUpdates        \* number of update calls made

scrapeVars == <<max_retries, retry_delay, selectors, url, method, attempt, pc,
                result, raised, events, slept, outcomes, lastResp>>
mergeVars  == <<mBase, mUpdate, mResult, mPc>>
cfgVars    == <<config_source, env, config, layered, dirs, cPc, config_file>>
accVars    == <<aConfig, aBefore, aOp, aSets>>
expVars    == <<xConfig, excel_available, docx_available, files, now, xLog, xOp,
                xBefore, xCalls, xBudget>>
valVars    == <<max_text_length, vData, vOut, vPc>>
renVars    == <<rA, rB, rKind, rOutA, rOutB>>
trkVars    == <<total_items, completed_items, failed_items, start_time, errors, clock,
                tOp, tUpdates>>
vars       == <<scrapeVars, mergeVars, cfgVars, accVars, expVars, valVars, renVars, trkVars>>

\* the variables of the other components
notScrape  == <<mergeVars, cfgVars, accVars, expVars, valVars, renVars, trkVars>>
notMerge   == <<scrapeVars, cfgVars, accVars, expVars, valVars, renVars, trkVars>>
notConfig  == <<scrapeVars, mergeVars, accVars, expVars, valVars, renVars, trkVars>>
notAccess  == <<scrapeVars, mergeVars, cfgVars, expVars, valVars, renVars, trkVars>>
notExport  == <<scrapeVars, mergeVars, cfgVars, accVars, valVars, renVars, trkVars>>
notValidate == <<scrapeVars, mergeVars, cfgVars, accVars, expVars, renVars, trkVars>>
notRender  == <<scrapeVars, mergeVars, cfgVars, accVars, expVars, valVars, trkVars>>
notTracker == <<scrapeVars, mergeVars, cfgVars, accVars, expVars, valVars, renVars>>

(***************************************************************************)
(* Bounds                                                                  *)
(***************************************************************************)
MaxRetriesBound == 3      \* max_retries ranges over 0..MaxRetriesBound
MaxVal          == 2      \* integer leaves of merged mappings are 1..MaxVal
MaxCalls        == 2      \* export calls made on one DataExporter
MaxClock        == 1      \* seconds that pass while an exporter is used
MaxBatch        == 3      \* records handed to one batch call
MaxRows         == 2      \* elements of a list exported as a table
MaxLinks        == 2      \* entries of the links of a record
MaxImages       == 1      \* entries of the images of a record
MaxUpdates      == 5      \* update calls made on one ProgressTracker
MaxTrackerClock == 1      \* seconds that pass while a tracker is used
MaxSets         == 2      \* set calls made on one ConfigManager

(***************************************************************************)
(* Text: a string is a sequence of one-character strings, so that lower(), *)
(* substring tests and int() are computed, not assumed.                    *)
(***************************************************************************)
LowerChar(c) ==
    CASE c = "A" -> "a" [] c = "C" -> "c" [] c = "E" -> "e" [] c = "H" -> "h"
      [] c = "J" -> "j" [] c = "L" -> "l" [] c = "M" -> "m" [] c = "N" -> "n"
      [] c = "O" -> "o" [] c = "P" -> "p" [] c = "R" -> "r" [] c = "S" -> "s"
      [] c = "T" -> "t" [] c = "U" -> "u" [] c = "X" -> "x" [] c = "Y" -> "y"
      [] OTHER -> c

Lower(s) == [i \in 1..Len(s) |-> LowerChar(s[i])]

Contains(sub, s) ==
    \E i \in 0..(Len(s) - Len(sub)) : SubSeq(s, i + 1, i + Len(sub)) = sub

APPLICATION_JSON == <<"a","p","p","l","i","c","a","t","i","o","n","/","j","s","o","n">>
TEXT_HTML        == <<"t","e","x","t","/","h","t","m","l">>

(***************************************************************************)
(* The HTTP collaborator: what one call of _make_request can produce.      *)
(***************************************************************************)
Urls == {"http://a.example/page", "http://b.example/api"}

\* response.url: the requested URL, or the URL a redirect ended at
FinalUrls == Urls \cup {"http://a.example/moved"}

TransportErrors == {"ConnectionError", "Timeout"}

Non200 == {404, 503}

Methods == {"GET", "post", "PUT"}

Upper(m) == CASE m = "post" -> "POST" [] m = "get" -> "GET" [] OTHER -> m

\* content-type headers a server sends; NoHeader is a response without one
NoHeader == <<"-">>
ContentTypes ==
    { APPLICATION_JSON,
      <<"A","p","p","l","i","c","a","t","i","o","n","/","J","S","O","N">>,
      TEXT_HTML,
      <<"T","e","x","t","/","H","T","M","L",";","u","t","f","8">>,
      <<"t","e","x","t","/","p","l","a","i","n">>,
      TEXT_HTML \o <<",", " ">> \o APPLICATION_JSON,
      NoHeader }

\* response bodies, and what response.json() makes of them
Bodies == {"{\"a\": 1}", "<html><title>T</title></html>", "{oops"}

JsonDecodable(body) == body = "{\"a\": 1}"

JsonValue(body) == [a |-> 1]

Responses200 ==
    [status_code : {200}, content_type : ContentTypes, url : FinalUrls, body : Bodies]

ResponsesNon200 ==
    [status_code : Non200, content_type : {NoHeader}, url : FinalUrls, body : {""}]

NoResponse == [status_code |-> 0, content_type |-> NoHeader, url |-> "", body |-> ""]

(***************************************************************************)
(* Extraction (scraper.py 98-231)                                          *)
(***************************************************************************)
EmptyRecord == [k \in {} |-> ""]

\* response.headers.get('content-type', '')
HeaderGet(response) ==
    IF response.content_type = NoHeader THEN <<>> ELSE response.content_type

\* the parsed document, as far as the extracted fields read it
SoupTitle(body) == IF body = "<html><title>T</title></html>" THEN "T" ELSE ""

SoupLinks(body, base_url) ==
    IF body = "<html><title>T</title></html>"
    THEN << [text |-> "next", url |-> [base |-> base_url, ref |-> "/next"],
             relative_url |-> "/next"] >>
    ELSE << >>

SoupText(body) == IF body = "<html><title>T</title></html>" THEN "T" ELSE body

_extract_by_selector(body, key) == << >>

_extract_json_data(response) ==
    IF JsonDecodable(response.body)
    THEN [type |-> "json", data |-> JsonValue(response.body),
          url |-> response.url, status_code |-> response.status_code]
    ELSE [type |-> "json_error", error |-> "Invalid JSON response",
          url |-> response.url, status_code |-> response.status_code]

_extract_html_data(response, u, sel) ==
    LET data == [type |-> "html",
                 url |-> u,
                 title |-> SoupTitle(response.body),
                 meta_description |-> "",
                 headings |-> [h \in {"h1","h2","h3","h4","h5","h6"} |-> << >>],
                 links |-> SoupLinks(response.body, u),
                 images |-> << >>,
                 text_content |-> SoupText(response.body),
                 status_code |-> response.status_code]
    IN  [k \in DOMAIN data \cup sel |->
            IF k \in sel THEN _extract_by_selector(response.body, k) ELSE data[k]]

_extract_text_data(response, u) ==
    [type |-> "text", url |-> u, content |-> response.body,
     status_code |-> response.status_code]

\* a dispatch that compares the header as the server wrote it
_extract_data_CaseSensitive(response, u, sel) ==
    LET content_type == HeaderGet(response)
    IN  IF Contains(APPLICATION_JSON, content_type)
        THEN _extract_json_data(response)
        ELSE IF Contains(TEXT_HTML, content_type)
             THEN _extract_html_data(response, u, sel)
             ELSE _extract_text_data(response, u)

\* lines 98-116
_extract_data(response, u, sel) ==
    LET content_type == Lower(HeaderGet(response))
    IN  IF Contains(APPLICATION_JSON, content_type)
        THEN _extract_json_data(response)
        ELSE IF Contains(TEXT_HTML, content_type)
             THEN _extract_html_data(response, u, sel)
             ELSE _extract_text_data(response, u)

(***************************************************************************)
(* WebScraper.scrape (scraper.py 53-96)                                    *)
(***************************************************************************)
\* _make_request raises ValueError for a method that is neither GET nor POST
MethodSupported(m) == Upper(m) \in {"GET", "POST"}

IdleScrape ==
    /\ max_retries = 0 /\ retry_delay = 0 /\ selectors = {} /\ url = ""
    /\ method = "" /\ attempt = 0 /\ pc = "idle" /\ result = EmptyRecord
    /\ raised = "" /\ events = << >> /\ slept = 0 /\ outcomes = << >>
    /\ lastResp = NoResponse

InitScrape ==
    /\ max_retries \in 0..MaxRetriesBound
    /\ retry_delay \in {1, 2}
    /\ selectors \in {{}, {"paragraphs"}, {"title"}, {"type"}}
    /\ url \in Urls
    /\ method \in Methods
    /\ attempt = 0
    /\ pc = "loop"
    /\ result = EmptyRecord
    /\ raised = ""
    /\ events = << >>
    /\ slept = 0
    /\ outcomes = << >>
    /\ lastResp = NoResponse

\* a handler that sleeps after every failed attempt and never re-raises
HandleException_NeverRaises(e) ==
    /\ outcomes' = Append(outcomes, e)
    /\ pc' = "sleep"
    /\ UNCHANGED <<attempt, result, raised, slept, lastResp>>

\* a handler that swallows the exception of the last attempt
HandleException_Swallows(e) ==
    /\ outcomes' = Append(outcomes, e)
    /\ IF attempt < max_retries - 1
       THEN /\ pc' = "sleep"
            /\ attempt' = attempt
       ELSE /\ pc' = "loop"
            /\ attempt' = attempt + 1
    /\ UNCHANGED <<result, raised, slept, lastResp>>

\* the except branch of the loop body: sleep unless this was the last attempt
HandleException(e) ==
    /\ outcomes' = Append(outcomes, e)
    /\ IF attempt < max_retries - 1
       THEN /\ pc' = "sleep"
            /\ raised' = raised
       ELSE /\ pc' = "raised"
            /\ raised' = e
    /\ UNCHANGED <<attempt, result, slept, lastResp>>

\* an attempt whose request does not come back: the transport raises
AttemptRaises(e) ==
    /\ pc = "loop"
    /\ attempt < max_retries
    /\ IF MethodSupported(method) THEN e \in TransportErrors ELSE e = "ValueError"
    /\ events' = Append(events, "req")
    /\ HandleException(e)
    /\ UNCHANGED <<max_retries, retry_delay, selectors, url, method>>
    /\ UNCHANGED notScrape

\* an attempt that gets a response with a status other than 200
AttemptNon200(response) ==
    /\ pc = "loop"
    /\ attempt < max_retries
    /\ MethodSupported(method)
    /\ response.status_code # 200
    /\ events' = Append(events, "req")
    /\ outcomes' = Append(outcomes, "non200")
    /\ attempt' = attempt + 1
    /\ pc' = "loop"
    /\ UNCHANGED <<result, raised, slept, lastResp>>
    /\ UNCHANGED <<max_retries, retry_delay, selectors, url, method>>
    /\ UNCHANGED notScrape

\* a 200 attempt whose JSON decode error is not caught by _extract_json_data
\* and lands in the except branch of scrape
Attempt200_DecodeErrorEscapes(response) ==
    /\ pc = "loop"
    /\ attempt < max_retries
    /\ MethodSupported(method)
    /\ response.status_code = 200
    /\ events' = Append(events, "req")
    /\ IF /\ Contains(APPLICATION_JSON, Lower(HeaderGet(response)))
          /\ ~JsonDecodable(response.body)
       THEN HandleException("JSONDecodeError")
       ELSE /\ outcomes' = Append(outcomes, "ok")
            /\ result' = _extract_data(response, url, selectors)
            /\ lastResp' = response
            /\ pc' = "returned"
            /\ UNCHANGED <<attempt, raised, slept>>
    /\ UNCHANGED <<max_retries, retry_delay, selectors, url, method>>
    /\ UNCHANGED notScrape

\* a 200 attempt after which the loop goes on
Attempt200_KeepsGoing(response) ==
    /\ pc = "loop"
    /\ attempt < max_retries
    /\ MethodSupported(method)
    /\ response.status_code = 200
    /\ events' = Append(events, "req")
    /\ outcomes' = Append(outcomes, "ok")
    /\ result' = _extract_data(response, url, selectors)
    /\ lastResp' = response
    /\ pc' = "loop"
    /\ attempt' = attempt + 1
    /\ UNCHANGED <<raised, slept>>
    /\ UNCHANGED <<max_retries, retry_delay, selectors, url, method>>
    /\ UNCHANGED notScrape

\* an attempt that gets a 200 response: extract and return
Attempt200(response) ==
    /\ pc = "loop"
    /\ attempt < max_retries
    /\ MethodSupported(method)
    /\ response.status_code = 200
    /\ events' = Append(events, "req")
    /\ outcomes' = Append(outcomes, "ok")
    /\ result' = _extract_data(response, url, selectors)
    /\ lastResp' = response
    /\ pc' = "returned"
    /\ UNCHANGED <<attempt, raised, slept>>
    /\ UNCHANGED <<max_retries, retry_delay, selectors, url, method>>
    /\ UNCHANGED notScrape

\* time.sleep(self.retry_delay), then the next iteration
Sleep ==
    /\ pc = "sleep"
    /\ events' = Append(events, "sleep")
    /\ slept' = slept + retry_delay
    /\ attempt' = attempt + 1
    /\ pc' = "loop"
    /\ UNCHANGED <<result, raised, outcomes, lastResp>>
    /\ UNCHANGED <<max_retries, retry_delay, selectors, url, method>>
    /\ UNCHANGED notScrape

\* running out of attempts reported as a failure instead of an empty Record
ReturnEmpty_Raises ==
    /\ pc = "loop"
    /\ attempt >= max_retries
    /\ raised' = "FetchError"
    /\ pc' = "raised"
    /\ UNCHANGED <<attempt, result, events, slept, outcomes, lastResp>>
    /\ UNCHANGED <<max_retries, retry_delay, selectors, url, method>>
    /\ UNCHANGED notScrape

\* the loop ran out: return {}
ReturnEmpty ==
    /\ pc = "loop"
    /\ attempt >= max_retries
    /\ result' = EmptyRecord
    /\ pc' = "returned"
    /\ UNCHANGED <<attempt, raised, events, slept, outcomes, lastResp>>
    /\ UNCHANGED <<max_retries, retry_delay, selectors, url, method>>
    /\ UNCHANGED notScrape

ScrapeNext ==
    \/ \E e \in TransportErrors \cup {"ValueError"} : AttemptRaises(e)
    \/ \E response \in ResponsesNon200 : AttemptNon200(response)
    \/ \E response \in Responses200 : Attempt200(response)
    \/ Sleep
    \/ ReturnEmpty

(***************************************************************************)
(* Configuration values: a tagged tree, as the dict/list/scalar values of  *)
(* the Python config are.  A dict is a function from keys to values.       *)
(***************************************************************************)
IntV(n)  == [t |-> "int",  v |-> n]
StrV(s)  == [t |-> "str",  v |-> s]
BoolV(b) == [t |-> "bool", v |-> b]
ListV(q) == [t |-> "list", v |-> q]
MapV(f)  == [t |-> "map",  v |-> f]
None    == [t |-> "none", v |-> 0]

EmptyDict == [k \in {} |-> None]

\* base[key] = value
Put(d, key, value) == [k \in DOMAIN d \cup {key} |-> IF k = key THEN value ELSE d[k]]

(***************************************************************************)
(* ConfigManager._deep_merge (config.py 115-121)                           *)
(***************************************************************************)
\* a merge that never recurses: every key of the update replaces the base value
_deep_merge_items_Shallow(base, update, keys) ==
    [k \in DOMAIN base \cup keys |-> IF k \in keys THEN update[k] ELSE base[k]]

RECURSIVE _deep_merge_items(_, _, _)

\* the loop over update.items(), keys being the items still to visit
_deep_merge_items(base, update, keys) ==
    IF keys = {} THEN base
    ELSE LET key   == CHOOSE k \in keys : TRUE
             value == update[key]
             base2 == IF value.t = "map" /\ key \in DOMAIN base /\ base[key].t = "map"
                      THEN Put(base, key,
                               MapV(_deep_merge_items(base[key].v, value.v, DOMAIN value.v)))
                      ELSE Put(base, key, value)
         IN  _deep_merge_items(base2, update, keys \ {key})

_deep_merge(base, update) == _deep_merge_items(base, update, DOMAIN update)

\* the mappings the merge is run on
Absent == [t |-> "absent", v |-> 0]

MkDict(k1, o1, k2, o2) ==
    [k \in {j \in {k1} : o1 # Absent} \cup {j \in {k2} : o2 # Absent} |->
        IF k = k1 THEN o1 ELSE o2]

MergeInts   == {IntV(n) : n \in 1..MaxVal}
MergeLists  == {ListV(<<IntV(1)>>), ListV(<<IntV(1), IntV(2)>>)}
MergeLeaves == MergeInts \cup MergeLists
MergeDeep   == {MapV(MkDict("p", o, "q", Absent)) : o \in MergeInts}
MergeInner  ==
    {MapV(MkDict("x", o1, "y", o2)) :
        o1 \in MergeLeaves \cup MergeDeep \cup {Absent}, o2 \in MergeLeaves \cup {Absent}}
MergeDicts  ==
    {MkDict("a", o1, "b", o2) :
        o1 \in MergeLeaves \cup MergeInner \cup {Absent}, o2 \in MergeLeaves \cup {Absent}}

\* the documented example: {a:{x:1,y:2}} merged with {a:{y:3,z:4}}
ExampleBase   == [a |-> MapV([x |-> IntV(1), y |-> IntV(2)])]
ExampleUpdate == [a |-> MapV([y |-> IntV(3), z |-> IntV(4)])]
ExampleMerged == [a |-> MapV([x |-> IntV(1), y |-> IntV(3), z |-> IntV(4)])]

IdleMerge ==
    /\ mBase = EmptyDict /\ mUpdate = EmptyDict /\ mResult = EmptyDict /\ mPc = "idle"

InitMerge ==
    /\ \/ mBase \in MergeDicts /\ mUpdate \in MergeDicts
       \/ mBase = ExampleBase /\ mUpdate = ExampleUpdate
    /\ mResult = EmptyDict
    /\ mPc = "start"

\* self._deep_merge(base, update): base is changed in place; mBase keeps the
\* mapping as it was before the call, mResult is base after it
DeepMerge ==
    /\ mPc = "start"
    /\ mResult' = _deep_merge(mBase, mUpdate)
    /\ mPc' = "merged"
    /\ UNCHANGED <<mBase, mUpdate>>
    /\ UNCHANGED notMerge

MergeNext == DeepMerge

(***************************************************************************)
(* int(value) and value.lower() on environment text (config.py 138-141)    *)
(***************************************************************************)
Digits == <<"0","1","2","3","4","5","6","7","8","9">>

IsDigit(c) == \E i \in 1..10 : Digits[i] = c

DigitVal(c) == (CHOOSE i \in 1..10 : Digits[i] = c) - 1

RECURSIVE Strip(_)
Strip(s) ==
    IF s = << >> THEN s
    ELSE IF Head(s) = " " THEN Strip(Tail(s))
    ELSE IF s[Len(s)] = " " THEN Strip(SubSeq(s, 1, Len(s) - 1))
    ELSE s

RECURSIVE DigitsValue(_)
DigitsValue(s) ==
    IF s = << >> THEN 0
    ELSE 10 * DigitsValue(SubSeq(s, 1, Len(s) - 1)) + DigitVal(s[Len(s)])

\* int(text): ok is FALSE where Python raises ValueError
ParseInt(text) ==
    LET s      == Strip(text)
        signed == s # << >> /\ Head(s) \in {"-", "+"}
        body   == IF signed THEN Tail(s) ELSE s
    IN  IF body # << >> /\ \A i \in 1..Len(body) : IsDigit(body[i])
        THEN [ok |-> TRUE,
              val |-> IF signed /\ Head(s) = "-" THEN 0 - DigitsValue(body)
                      ELSE DigitsValue(body)]
        ELSE [ok |-> FALSE, val |-> 0]

TrueWords == { <<"t","r","u","e">>, <<"1">>, <<"y","e","s">>, <<"o","n">> }

(***************************************************************************)
(* ConfigManager.__init__ (config.py 24-170)                               *)
(***************************************************************************)
_load_default_config ==
    [scraping |-> MapV([timeout |-> IntV(30),
                        max_retries |-> IntV(3),
                        retry_delay |-> IntV(1),
                        use_selenium |-> BoolV(FALSE),
                        headers |-> MapV(MkDict("User-Agent", StrV("Mozilla/5.0"), "", Absent))]),
     extraction |-> MapV([selectors |-> MapV(EmptyDict),
                          extract_links |-> BoolV(TRUE),
                          extract_images |-> BoolV(TRUE),
                          extract_text |-> BoolV(TRUE),
                          max_text_length |-> IntV(10000)]),
     output |-> MapV([format |-> StrV("json"),
                      filename |-> StrV("scraped_data"),
                      directory |-> StrV("./output"),
                      timestamp |-> BoolV(TRUE)]),
     logging |-> MapV([level |-> StrV("INFO"),
                       format |-> StrV("%(message)s"),
                       file |-> None])]

env_mapping ==
    << [var |-> "SCRAPER_TIMEOUT",       section |-> "scraping", key |-> "timeout",      type_func |-> "int"],
       [var |-> "SCRAPER_MAX_RETRIES",   section |-> "scraping", key |-> "max_retries",  type_func |-> "int"],
       [var |-> "SCRAPER_USE_SELENIUM",  section |-> "scraping", key |-> "use_selenium", type_func |-> "bool"],
       [var |-> "SCRAPER_OUTPUT_FORMAT", section |-> "output",   key |-> "format",       type_func |-> "str"],
       [var |-> "SCRAPER_OUTPUT_DIR",    section |-> "output",   key |-> "directory",    type_func |-> "str"],
       [var |-> "SCRAPER_LOG_LEVEL",     section |-> "logging",  key |-> "level",        type_func |-> "str"] >>

\* os.getenv: an unset variable is None
Unset == [set |-> FALSE, text |-> << >>]
UnsetStr == [set |-> FALSE, text |-> ""]
SetTo(text) == [set |-> TRUE, text |-> text]

\* self.config[section][key] = value, creating the section when it is missing
SetSectionKey(cfg, section, key, value) ==
    LET cfg2 == IF section \notin DOMAIN cfg THEN Put(cfg, section, MapV(EmptyDict)) ELSE cfg
    IN  Put(cfg2, section, MapV(Put(cfg2[section].v, key, value)))

\* bool(value) instead of the membership test: every non-empty text is true
Coerce_BoolOfText(type_func, text) ==
    IF type_func = "bool" THEN [ok |-> TRUE, value |-> BoolV(text # << >>)]
    ELSE IF type_func = "int"
         THEN [ok |-> ParseInt(text).ok, value |-> IntV(ParseInt(text).val)]
         ELSE [ok |-> TRUE, value |-> StrV(text)]

\* the conversion in the try block: ok is FALSE where it raises ValueError
Coerce(type_func, text) ==
    IF type_func = "bool" THEN [ok |-> TRUE, value |-> BoolV(Lower(text) \in TrueWords)]
    ELSE IF type_func = "int"
         THEN [ok |-> ParseInt(text).ok, value |-> IntV(ParseInt(text).val)]
         ELSE [ok |-> TRUE, value |-> StrV(text)]

\* one iteration of the loop over env_mapping; st.error names an exception
\* that left the loop ("" when none did)
LoadEnvVariable(st, e, m) ==
    LET value == e[m.var]
    IN  IF st.error # "" \/ ~value.set THEN st
        ELSE IF Coerce(m.type_func, value.text).ok
             THEN [config |-> SetSectionKey(st.config, m.section, m.key,
                                            Coerce(m.type_func, value.text).value),
                   error |-> ""]
             ELSE st

\* a loop whose try block encloses it: the first ValueError ends the loop
RECURSIVE LoadEnvFrom_AbortsLoop(_, _, _)
LoadEnvFrom_AbortsLoop(st, e, i) ==
    IF i > Len(env_mapping) THEN st
    ELSE IF e[env_mapping[i].var].set
            /\ ~Coerce(env_mapping[i].type_func, e[env_mapping[i].var].text).ok
         THEN st
         ELSE LoadEnvFrom_AbortsLoop(LoadEnvVariable(st, e, env_mapping[i]), e, i + 1)

RECURSIVE LoadEnvFrom(_, _, _)
LoadEnvFrom(st, e, i) ==
    IF i > Len(env_mapping) THEN st
    ELSE LoadEnvFrom(LoadEnvVariable(st, e, env_mapping[i]), e, i + 1)

_load_env_variables(cfg, e) == LoadEnvFrom([config |-> cfg, error |-> ""], e, 1)

valid_formats == {"json", "csv", "xlsx", "docx", "txt"}

\* a validation that lets a timeout of 0 through
_validate_config_Lenient(cfg) ==
    LET c1 == IF cfg["scraping"].v["timeout"].v < 0
              THEN SetSectionKey(cfg, "scraping", "timeout", IntV(30)) ELSE cfg
        c2 == IF c1["scraping"].v["max_retries"].v < 0
              THEN SetSectionKey(c1, "scraping", "max_retries", IntV(3)) ELSE c1
        c3 == IF c2["output"].v["format"].v \notin valid_formats
              THEN SetSectionKey(c2, "output", "format", StrV("json")) ELSE c2
    IN  c3

_validate_config(cfg) ==
    LET c1 == IF cfg["scraping"].v["timeout"].v <= 0
              THEN SetSectionKey(cfg, "scraping", "timeout", IntV(30)) ELSE cfg
        c2 == IF c1["scraping"].v["max_retries"].v < 0
              THEN SetSectionKey(c1, "scraping", "max_retries", IntV(3)) ELSE c1
        c3 == IF c2["output"].v["format"].v \notin valid_formats
              THEN SetSectionKey(c2, "output", "format", StrV("json")) ELSE c2
    IN  c3

\* the override sources and environments a build is run with
SourceScraping ==
    {MkDict("timeout", o1, "max_retries", o2) :
        o1 \in {Absent, IntV(-5), IntV(10)},
        o2 \in {Absent, IntV(-1), IntV(0), IntV(5)}}
SourceOutput ==
    {MkDict("format", o, "directory", Absent) : o \in {Absent, StrV("pdf"), StrV("csv")}}
Sources ==
    {MkDict("scraping", o1, "output", o2) :
        o1 \in {Absent} \cup {MapV(d) : d \in SourceScraping \ {EmptyDict}},
        o2 \in {Absent} \cup {MapV(d) : d \in SourceOutput \ {EmptyDict}}}

EmptyText == << >>
PaddedSeven == <<" ", "7", " ">>

Environments ==
    [SCRAPER_TIMEOUT : {Unset, SetTo(<<"0">>), SetTo(<<"-","5">>), SetTo(<<"a","b","c">>),
                        SetTo(PaddedSeven)},
     SCRAPER_MAX_RETRIES : {Unset, SetTo(<<"0">>), SetTo(<<"-","1">>), SetTo(<<"1",".","5">>),
                            SetTo(EmptyText)},
     SCRAPER_USE_SELENIUM : {Unset, SetTo(<<"Y","E","S">>), SetTo(<<"n","o">>)},
     SCRAPER_OUTPUT_FORMAT : {UnsetStr, SetTo("xlsx"), SetTo("pdf")},
     SCRAPER_OUTPUT_DIR : {UnsetStr, SetTo("out2")},
     SCRAPER_LOG_LEVEL : {UnsetStr, SetTo("DEBUG")}]

\* an override file: whether it exists, its suffix, and what the parser the
\* suffix selects makes of its content (ParseError: the parser raises)
ParseError == [t |-> "error", v |-> 0]
NoFile == [exists |-> FALSE, suffix |-> << >>, parsed |-> ParseError]

YamlSuffixes == { <<".","y","a","m","l">>, <<".","y","m","l">> }
JsonSuffix   == <<".","j","s","o","n">>

FileDicts ==
    { [scraping |-> MapV([timeout |-> IntV(10)])],
      [output |-> MapV([format |-> StrV("csv")]), scraping |-> MapV([max_retries |-> IntV(-1)])] }

Files ==
    [exists : BOOLEAN,
     suffix : { <<".","y","a","m","l">>, <<".","Y","M","L">>, <<".","J","S","O","N">>,
                <<".","t","x","t">> },
     parsed : {ParseError, None, ListV(<<IntV(1)>>), StrV("text")}
              \cup {MapV(d) : d \in FileDicts}]

\* an override file whose suffix is never tested: any file is parsed
_load_config_file_AnySuffix(cfg, file) ==
    IF ~file.exists THEN cfg
    ELSE IF file.parsed = ParseError THEN cfg
    ELSE IF file.parsed.t = "map" THEN _deep_merge(cfg, file.parsed.v)
    ELSE cfg

\* _load_config_file (config.py 77-104): every failure is logged and leaves
\* self.config as it was; update.items() of a parsed value that is not a dict
\* raises AttributeError inside the try block
_load_config_file(cfg, file) ==
    IF ~file.exists THEN cfg
    ELSE IF Lower(file.suffix) \in YamlSuffixes \/ Lower(file.suffix) = JsonSuffix
         THEN IF file.parsed = ParseError THEN cfg
              ELSE IF file.parsed.t = "map" THEN _deep_merge(cfg, file.parsed.v)
              ELSE cfg
         ELSE cfg

IdleConfig ==
    /\ config_source = EmptyDict /\ env = EmptyDict /\ config = EmptyDict
    /\ layered = EmptyDict /\ dirs = {} /\ cPc = "idle" /\ config_file = NoFile

InitConfig ==
    /\ config_source \in Sources
    /\ env \in Environments
    /\ config = EmptyDict
    /\ layered = EmptyDict
    /\ dirs \in {{}, {"./output"}}
    /\ cPc = "new"
    /\ config_file = NoFile

\* a build from an override file
InitConfigFile ==
    /\ config_source = EmptyDict
    /\ config_file \in Files
    /\ env \in {e \in Environments :
                    ~e["SCRAPER_USE_SELENIUM"].set /\ ~e["SCRAPER_OUTPUT_DIR"].set}
    /\ config = EmptyDict
    /\ layered = EmptyDict
    /\ dirs \in {{}, {"./output"}}
    /\ cPc = "new"

\* lines 31-37: the defaults, then the override source merged into them
LoadConfig ==
    /\ cPc = "new"
    /\ config_file = NoFile
    /\ config' = IF config_source # EmptyDict
                 THEN _deep_merge(_load_default_config, config_source)
                 ELSE _load_default_config
    /\ cPc' = "merged"
    /\ UNCHANGED <<config_source, env, layered, dirs, config_file>>
    /\ UNCHANGED notConfig

\* lines 31-37 when config_source is a path
LoadConfigFile ==
    /\ cPc = "new"
    /\ config_file # NoFile
    /\ config' = _load_config_file(_load_default_config, config_file)
    /\ cPc' = "merged"
    /\ UNCHANGED <<config_source, env, layered, dirs, config_file>>
    /\ UNCHANGED notConfig

\* line 40
LoadEnv ==
    /\ cPc = "merged"
    /\ config' = _load_env_variables(config, env).config
    /\ cPc' = IF _load_env_variables(config, env).error = "" THEN "env" ELSE "failed"
    /\ UNCHANGED <<config_source, env, layered, dirs, config_file>>
    /\ UNCHANGED notConfig

\* line 43; layered records self.config as validation found it
ValidateConfig ==
    /\ cPc = "env"
    /\ layered' = config
    /\ config' = _validate_config(config)
    /\ dirs' = dirs \cup {config["output"].v["directory"].v}
    /\ cPc' = "ready"
    /\ UNCHANGED <<config_source, env, config_file>>
    /\ UNCHANGED notConfig

ConfigNext == LoadConfig \/ LoadEnv \/ ValidateConfig

(***************************************************************************)
(* ConfigManager.get and ConfigManager.set (config.py 172-210)             *)
(* A key_path is a sequence of tokens: "." and the texts between the dots. *)
(***************************************************************************)
RECURSIVE SplitFrom(_, _)
SplitFrom(tokens, cur) ==
    IF tokens = << >> THEN <<cur>>
    ELSE IF Head(tokens) = "." THEN <<cur>> \o SplitFrom(Tail(tokens), "")
    ELSE SplitFrom(Tail(tokens), Head(tokens))

\* key_path.split('.')
Split(key_path) == SplitFrom(key_path, "")

KeyPaths ==
    { <<"scraping", ".", "timeout">>,
      <<"scraping">>,
      <<"scraping", ".", "timeout", ".", "unit">>,
      <<"scraping", ".", "headers", ".", "User-Agent">>,
      <<"logging", ".", "file">>,
      <<"logging", ".", "file", ".", "path">>,
      <<"output", ".", "format", ".", "x">>,
      <<"cache", ".", "dir", ".", "tmp">>,
      <<"scraping", ".", ".", "timeout">>,
      << >> }

AccessValues == {None, IntV(7), MapV([unit |-> StrV("s")])}

\* a lookup that takes a stored None for a missing value
GetFrom_NoneIsDefault(value, keys, default) ==
    LET RECURSIVE Walk(_, _)
        Walk(v, ks) ==
            IF ks = << >> THEN (IF v = None THEN default ELSE v)
            ELSE IF v.t = "map" /\ Head(ks) \in DOMAIN v.v
                 THEN Walk(v.v[Head(ks)], Tail(ks))
                 ELSE default
    IN  Walk(value, keys)

\* the loop of get: value is what the walk has reached, keys what is left
RECURSIVE GetFrom(_, _, _)
GetFrom(value, keys, default) ==
    IF keys = << >> THEN value
    ELSE IF value.t = "map" /\ Head(keys) \in DOMAIN value.v
         THEN GetFrom(value.v[Head(keys)], Tail(keys), default)
         ELSE default

get(cfg, key_path, default) == GetFrom(MapV(cfg), Split(key_path), default)

\* the loop of set and the final assignment: ok is FALSE where Python raises
\* TypeError, which it does as soon as the value to descend into or to
\* assign into is not a dict
RECURSIVE SetIn(_, _, _)
SetIn(container, keys, value) ==
    IF container.t # "map" THEN [ok |-> FALSE, v |-> container]
    ELSE IF Len(keys) = 1 THEN [ok |-> TRUE, v |-> MapV(Put(container.v, keys[1], value))]
    ELSE LET child == IF Head(keys) \notin DOMAIN container.v
                      THEN MapV(EmptyDict) ELSE container.v[Head(keys)]
             r     == SetIn(child, Tail(keys), value)
         IN  IF r.ok THEN [ok |-> TRUE, v |-> MapV(Put(container.v, Head(keys), r.v))]
             ELSE [ok |-> FALSE, v |-> container]

set(cfg, key_path, value) == SetIn(MapV(cfg), Split(key_path), value)

NoOp == [op |-> "none", key_path |-> << >>, arg |-> None, ret |-> None, raised |-> ""]

IdleAccess ==
    /\ aConfig = EmptyDict /\ aBefore = EmptyDict /\ aOp = NoOp /\ aSets = 0

InitAccess ==
    /\ aConfig = _load_default_config
    /\ aBefore = _load_default_config
    /\ aOp = NoOp
    /\ aSets = 0

Get(key_path, default) ==
    /\ aBefore' = aConfig
    /\ aOp' = [op |-> "get", key_path |-> key_path, arg |-> default,
               ret |-> get(aConfig, key_path, default), raised |-> ""]
    /\ UNCHANGED <<aConfig, aSets>>
    /\ UNCHANGED notAccess

Set(key_path, value) ==
    /\ aSets < MaxSets
    /\ aSets' = aSets + 1
    /\ aBefore' = aConfig
    /\ aConfig' = IF set(aConfig, key_path, value).ok
                  THEN set(aConfig, key_path, value).v.v ELSE aConfig
    /\ aOp' = [op |-> "set", key_path |-> key_path, arg |-> value, ret |-> None,
               raised |-> IF set(aConfig, key_path, value).ok THEN "" ELSE "TypeError"]
    /\ UNCHANGED notAccess

AccessNext ==
    \/ \E key_path \in KeyPaths, default \in AccessValues : Get(key_path, default)
    \/ \E key_path \in KeyPaths, value \in AccessValues : Set(key_path, value)

(***************************************************************************)
(* Exported data (exporters.py).  A dict is DictV of the sequence of its   *)
(* items in insertion order, a list ListV of its elements; the scalars are *)
(* IntV, StrV, None and TimeV (the text of a time).  Cycle stands for a    *)
(* value that refers back to its own container.                            *)
(***************************************************************************)
DictV(items) == [t |-> "dict", v |-> items]
TimeV(time)  == [t |-> "time", v |-> time]
Cycle        == [t |-> "cycle", v |-> 0]

Item(key, value) == [k |-> key, v |-> value]

Keys(items) == {items[i].k : i \in 1..Len(items)}

\* row.get(key, default); a dict built with a repeated key keeps the last value
ItemGet(items, key, default) ==
    IF key \in Keys(items)
    THEN items[CHOOSE i \in 1..Len(items) :
                  items[i].k = key /\ \A j \in (i + 1)..Len(items) : items[j].k # key].v
    ELSE default

\* the keys that occur in exported data, in the order Python sorts them
KeyOrder ==
    <<"a", "b", "c", "data", "datasets", "exported_at", "metadata", "self", "total_datasets">>

\* sorted(list(headers))
Sorted(keys) == SelectSeq(KeyOrder, LAMBDA k : k \in keys)

\* str(value).replace('_', ' ').title() for the keys of KeyOrder
Label(key) ==
    CASE key = "a" -> "A" [] key = "b" -> "B" [] key = "c" -> "C"
      [] key = "data" -> "Data" [] key = "datasets" -> "Datasets"
      [] key = "exported_at" -> "Exported At" [] key = "metadata" -> "Metadata"
      [] key = "self" -> "Self" [] key = "total_datasets" -> "Total Datasets"

\* str(value) of a scalar
StrOf(value) ==
    CASE value.t = "int" -> StrV(Digits[value.v + 1])
      [] value.t = "none" -> StrV("None")
      [] OTHER -> value

\* json.dumps(value): the compact encoding of a nested value
JsonText(value) == [t |-> "json", v |-> value]

RECURSIVE HasCycle(_)
\* the value cannot be walked or encoded: json.dump(s) raises ValueError and
\* the recursive writers RecursionError
HasCycle(value) ==
    CASE value.t = "cycle" -> TRUE
      [] value.t = "dict" -> \E i \in 1..Len(value.v) : HasCycle(value.v[i].v)
      [] value.t = "list" -> \E i \in 1..Len(value.v) : HasCycle(value.v[i])
      [] OTHER -> FALSE

(***************************************************************************)
(* Tabular export (exporters.py 106-196, 273-283)                          *)
(***************************************************************************)
_prepare_data_for_tabular(data) ==
    IF data.t = "dict" THEN <<data>>
    ELSE IF data.t = "list" THEN SelectSeq(data.v, LAMBDA item : item.t = "dict")
    ELSE <<DictV(<<Item("data", StrOf(data))>>)>>

\* headers of the first row only
Headers_FirstRow(rows) ==
    Sorted(IF rows[1].t = "dict" THEN Keys(rows[1].v) ELSE {})

\* lines 118-124 and 169-175
Headers(rows) ==
    Sorted(UNION {IF rows[i].t = "dict" THEN Keys(rows[i].v) ELSE {} : i \in 1..Len(rows)})

EmptyCell == StrV("")

Keys2Set(headers) == {headers[i] : i \in 1..Len(headers)}

\* lines 135-139
CsvCell(row, key) ==
    LET value == ItemGet(row.v, key, EmptyCell)
    IN  IF value.t \in {"list", "dict"} THEN JsonText(value)
        ELSE IF value.t = "none" THEN EmptyCell ELSE StrOf(value)

\* lines 185-188
ExcelCell(row, key) ==
    LET value == ItemGet(row.v, key, EmptyCell)
    IN  IF value.t \in {"list", "dict"} THEN JsonText(value) ELSE value

Table(header, rows) == [t |-> "table", v |-> [header |-> header, rows |-> rows]]

\* the table export_csv writes for rows that can all be encoded
CsvTable(rows) ==
    LET headers == Headers(rows)
        dicts   == SelectSeq(rows, LAMBDA row : row.t = "dict")
    IN  Table(headers, [i \in 1..Len(dicts) |-> [key \in Keys2Set(headers) |-> CsvCell(dicts[i], key)]])

\* the sheet export_excel saves; a row that is not a dict leaves its line empty
ExcelTable(rows) ==
    LET headers == Headers(rows)
    IN  Table(headers, [i \in 1..Len(rows) |->
                IF rows[i].t = "dict"
                THEN [key \in Keys2Set(headers) |-> ExcelCell(rows[i], key)]
                ELSE [key \in {} |-> EmptyCell]])

(***************************************************************************)
(* Hierarchical export (exporters.py 198-271, 285-319)                     *)
(***************************************************************************)
Line(indent, form, key, value) == [indent |-> indent, form |-> form, key |-> key, value |-> value]

RECURSIVE _write_dict_to_text(_, _)
RECURSIVE WriteListToText(_, _)

\* the loop over the elements of a list value
WriteListToText(list, indent) ==
    IF list = << >> THEN << >>
    ELSE (IF Head(list).t = "dict"
          THEN _write_dict_to_text(Head(list).v, indent + 1)
          ELSE <<Line(indent, "item", "", StrOf(Head(list)))>>)
         \o WriteListToText(Tail(list), indent)

_write_dict_to_text(items, indent) ==
    IF items = << >> THEN << >>
    ELSE LET key   == Head(items).k
             value == Head(items).v
         IN  (IF value.t = "dict"
              THEN <<Line(indent, "key", key, EmptyCell)>> \o _write_dict_to_text(value.v, indent + 1)
              ELSE IF value.t = "list"
              THEN <<Line(indent, "key", key, EmptyCell)>> \o WriteListToText(value.v, indent)
              ELSE <<Line(indent, "pair", key, StrOf(value))>>)
             \o _write_dict_to_text(Tail(items), indent)

RECURSIVE TextItems(_, _)
\* lines 255-262
TextItems(list, i) ==
    IF i > Len(list) THEN << >>
    ELSE <<Line(0, "itemno", "", IntV(i)), Line(0, "rule", "", EmptyCell)>>
         \o (IF list[i].t = "dict" THEN _write_dict_to_text(list[i].v, 0)
              ELSE <<Line(0, "text", "", StrOf(list[i]))>>)
         \o <<Line(0, "blank", "", EmptyCell)>>
         \o TextItems(list, i + 1)

\* what export_text writes at time time
TextLines(data, time) ==
    [t |-> "lines",
     v |-> <<Line(0, "title", "", EmptyCell), Line(0, "rule", "", EmptyCell),
             Line(0, "generated", "", TimeV(time)), Line(0, "blank", "", EmptyCell)>>
           \o (IF data.t = "dict" THEN _write_dict_to_text(data.v, 0)
                ELSE IF data.t = "list" THEN TextItems(data.v, 1)
                ELSE <<Line(0, "text", "", StrOf(data))>>)]

RECURSIVE _add_dict_to_docx(_, _)
RECURSIVE AddListToDocx(_, _)

AddListToDocx(list, level) ==
    IF list = << >> THEN << >>
    ELSE (IF Head(list).t = "dict"
          THEN _add_dict_to_docx(Head(list).v, level + 1)
          ELSE <<Line(0, "bullet", "", StrOf(Head(list)))>>)
         \o AddListToDocx(Tail(list), level)

\* headings carry their level in indent
_add_dict_to_docx(items, level) ==
    IF items = << >> THEN << >>
    ELSE LET key   == Head(items).k
             value == Head(items).v
         IN  (IF value.t = "dict"
              THEN <<Line(level, "heading", Label(key), EmptyCell)>>
                   \o _add_dict_to_docx(value.v, level + 1)
              ELSE IF value.t = "list"
              THEN <<Line(level, "heading", Label(key), EmptyCell)>> \o AddListToDocx(value.v, level)
              ELSE <<Line(0, "pair", Label(key), StrOf(value))>>)
             \o _add_dict_to_docx(Tail(items), level)

RECURSIVE DocxItems(_, _)
\* lines 224-230
DocxItems(list, i) ==
    IF i > Len(list) THEN << >>
    ELSE <<Line(1, "itemno", "", IntV(i))>>
         \o (IF list[i].t = "dict" THEN _add_dict_to_docx(list[i].v, 2)
              ELSE <<Line(0, "text", "", StrOf(list[i]))>>)
         \o <<Line(0, "blank", "", EmptyCell)>>
         \o DocxItems(list, i + 1)

\* the document export_docx saves at time time
DocxParagraphs(data, time) ==
    [t |-> "paragraphs",
     v |-> <<Line(0, "title", "", EmptyCell), Line(0, "generated", "", TimeV(time)),
             Line(0, "blank", "", EmptyCell)>>
           \o (IF data.t = "dict" THEN _add_dict_to_docx(data.v, 2)
                ELSE IF data.t = "list" THEN DocxItems(data.v, 1)
                ELSE <<Line(0, "text", "", StrOf(data))>>)]

(***************************************************************************)
(* DataExporter.export and BatchExporter (exporters.py 41-104, 322-375)    *)
(* A path is output_dir / f"{filename}[_{num:03d}][_{timestamp}].{ext}",   *)
(* kept as its parts; stamp is the second the timestamp shows, -1 without. *)
(***************************************************************************)
NoArg == "<None>"      \* an argument left at its default None

\* self.config.get(key, default)
CfgGet(cfg, key, default) == IF key \in DOMAIN cfg THEN cfg[key] ELSE default

Supported == {"json", "csv", "xlsx", "docx", "txt"}

\* an unknown format is exported as the default one
EffFormat_DefaultsUnknown(cfg, format_type) ==
    LET f == IF format_type \in {NoArg, ""} THEN CfgGet(cfg, "format", "json") ELSE format_type
    IN  IF f \in Supported THEN f ELSE "json"

\* line 69: format_type or self.config.get('format', 'json')
EffFormat(cfg, format_type) ==
    IF format_type \in {NoArg, ""} THEN CfgGet(cfg, "format", "json") ELSE format_type

\* line 70: filename or self.base_filename
EffFilename(cfg, filename) ==
    IF filename \in {NoArg, ""} THEN CfgGet(cfg, "filename", "scraped_data") ELSE filename

\* lines 72-75 and the filepath of each export_* method
Path(cfg, filename, num, time, ext) ==
    [dir   |-> CfgGet(cfg, "directory", "./output"),
     name  |-> EffFilename(cfg, filename),
     num   |-> num,
     stamp |-> IF CfgGet(cfg, "timestamp", TRUE) THEN time ELSE -1,
     ext   |-> ext]

NoPath == [dir |-> "", name |-> "", num |-> 0, stamp |-> -1, ext |-> ""]

Partial == [t |-> "partial", v |-> 0]

FileOf(kind, complete, body) == [kind |-> kind, complete |-> complete, body |-> body]

\* a file that exists is left as it is
WriteFile_KeepsExisting(fs, path, content) ==
    IF path \in DOMAIN fs THEN fs
    ELSE [q \in DOMAIN fs \cup {path} |-> IF q = path THEN content ELSE fs[q]]

\* open(filepath, 'w') and workbook.save / document.save: the file holds what
\* this call wrote and nothing else
WriteFile(fs, path, content) ==
    [q \in DOMAIN fs \cup {path} |-> IF q = path THEN content ELSE fs[q]]

\* what one export_* method did: the files after it, whether it opened or
\* saved its file, and the exception that left it ("" when it returned)
Done(fs, wrote, exc) == [files |-> fs, wrote |-> wrote, raised |-> exc]

\* lines 91-104
export_json(fs, data, path) ==
    IF HasCycle(data)
    THEN Done(WriteFile(fs, path, FileOf("json", FALSE, Partial)), TRUE, "ValueError")
    ELSE Done(WriteFile(fs, path, FileOf("json", TRUE, data)), TRUE, "")

\* lines 106-147
export_csv(fs, data, path) ==
    LET rows == _prepare_data_for_tabular(data)
    IN  IF rows = << >> THEN Done(fs, FALSE, "")
        ELSE IF \E i \in 1..Len(rows) : HasCycle(rows[i])
        THEN Done(WriteFile(fs, path, FileOf("csv", FALSE, Partial)), TRUE, "ValueError")
        ELSE Done(WriteFile(fs, path, FileOf("csv", TRUE, CsvTable(rows))), TRUE, "")

\* lines 149-196
export_excel(available, fs, data, path) ==
    LET rows == _prepare_data_for_tabular(data)
    IN  IF ~available THEN Done(fs, FALSE, "ImportError")
        ELSE IF rows = << >>
        THEN Done(WriteFile(fs, path, FileOf("xlsx", TRUE, Table(<< >>, << >>))), TRUE, "")
        ELSE IF \E i \in 1..Len(rows) : HasCycle(rows[i])
        THEN Done(fs, FALSE, "ValueError")
        ELSE Done(WriteFile(fs, path, FileOf("xlsx", TRUE, ExcelTable(rows))), TRUE, "")

\* lines 198-240
export_docx(available, fs, data, path, time) ==
    IF ~available THEN Done(fs, FALSE, "ImportError")
    ELSE IF HasCycle(data) THEN Done(fs, FALSE, "RecursionError")
    ELSE Done(WriteFile(fs, path, FileOf("docx", TRUE, DocxParagraphs(data, time))), TRUE, "")

\* lines 242-271
export_text(fs, data, path, time) ==
    IF HasCycle(data)
    THEN Done(WriteFile(fs, path, FileOf("txt", FALSE, Partial)), TRUE, "RecursionError")
    ELSE Done(WriteFile(fs, path, FileOf("txt", TRUE, TextLines(data, time))), TRUE, "")

\* the exporter a call runs on: its config and the optional libraries
Exporter(cfg, excel, docx) == [config |-> cfg, excel |-> excel, docx |-> docx]

\* DataExporter.export, lines 56-89: the files after the call and its entry in
\* the log of calls
export(x, fs, time, data, format_type, filename, num) ==
    LET format == EffFormat(x.config, format_type)
        path   == Path(x.config, filename, num, time, format)
        done   == CASE format = "json" -> export_json(fs, data, path)
                    [] format = "csv"  -> export_csv(fs, data, path)
                    [] format = "xlsx" -> export_excel(x.excel, fs, data, path)
                    [] format = "docx" -> export_docx(x.docx, fs, data, path, time)
                    [] format = "txt"  -> export_text(fs, data, path, time)
                    [] OTHER -> Done(fs, FALSE, "ValueError")
    IN  [files |-> done.files,
         entry |-> [data |-> data, format_type |-> format_type, filename |-> filename,
                    format |-> format, name |-> EffFilename(x.config, filename),
                    num |-> num, at |-> time,
                    path |-> IF format \in Supported THEN path ELSE NoPath,
                    wrote |-> done.wrote, raised |-> done.raised]]

RECURSIVE BatchLoop_Aborts(_, _, _, _, _, _, _, _)
\* a loop that the first failing record ends
BatchLoop_Aborts(x, fs, time, datasets, base_filename, i, log, exported_files) ==
    IF i > Len(datasets) THEN [files |-> fs, log |-> log, ret |-> exported_files]
    ELSE LET r == export(x, fs, time, datasets[i], CfgGet(x.config, "format", "json"),
                         base_filename, i)
         IN  IF r.entry.raised = ""
             THEN BatchLoop_Aborts(x, r.files, time, datasets, base_filename, i + 1,
                                   Append(log, r.entry), Append(exported_files, r.entry.path))
             ELSE [files |-> r.files, log |-> Append(log, r.entry), ret |-> exported_files]

RECURSIVE BatchLoop(_, _, _, _, _, _, _, _)
\* lines 345-351: the loop of export_multiple from record i on
BatchLoop(x, fs, time, datasets, base_filename, i, log, exported_files) ==
    IF i > Len(datasets) THEN [files |-> fs, log |-> log, ret |-> exported_files]
    ELSE LET r == export(x, fs, time, datasets[i], CfgGet(x.config, "format", "json"),
                         base_filename, i)
         IN  BatchLoop(x, r.files, time, datasets, base_filename, i + 1,
                       Append(log, r.entry),
                       IF r.entry.raised = "" THEN Append(exported_files, r.entry.path)
                       ELSE exported_files)

\* lines 331-353
export_multiple(x, fs, time, datasets, base_filename) ==
    BatchLoop(x, fs, time, datasets, base_filename, 1, << >>, << >>)

\* lines 365-371
combined_data(datasets, time) ==
    DictV(<<Item("metadata", DictV(<<Item("total_datasets", IntV(Len(datasets))),
                                     Item("exported_at", TimeV(time))>>)),
            Item("datasets", ListV(datasets))>>)

\* an export_combined that skips a failed export as export_multiple does
export_combined_Skips(x, fs, time, datasets, filename) ==
    LET r == export(x, fs, time, combined_data(datasets, time),
                    CfgGet(x.config, "format", "json"), filename, 0)
    IN  [files |-> r.files, log |-> <<r.entry>>,
         ret |-> IF r.entry.raised = "" THEN <<r.entry.path>> ELSE << >>,
         raised |-> ""]

\* lines 355-375
export_combined(x, fs, time, datasets, filename) ==
    LET r == export(x, fs, time, combined_data(datasets, time),
                    CfgGet(x.config, "format", "json"), filename, 0)
    IN  [files |-> r.files, log |-> <<r.entry>>,
         ret |-> IF r.entry.raised = "" THEN <<r.entry.path>> ELSE << >>,
         raised |-> r.entry.raised]

\* ---- inputs ----
Good == DictV(<<Item("a", IntV(1)), Item("b", IntV(2))>>)
\* a record that holds itself: d['self'] = d
Bad  == DictV(<<Item("a", IntV(1)), Item("self", Cycle)>>)

Records == {Good, Bad}

Batches == UNION {[1..n -> Records] : n \in 0..MaxBatch}

FormatArgs   == {NoArg, "txt", "xml"}
FilenameArgs == {NoArg, "other"}

\* elements of tabular data: the rows of the example, the first of them
\* built in the other key order, rows with a nested list, a nested dict and
\* a None value, and an element that is not a dict
RowAB     == DictV(<<Item("a", IntV(1)), Item("b", IntV(2))>>)
RowBA     == DictV(<<Item("b", IntV(2)), Item("a", IntV(1))>>)
RowBC     == DictV(<<Item("b", IntV(3)), Item("c", IntV(4))>>)
RowList   == DictV(<<Item("c", ListV(<<IntV(1), IntV(2)>>))>>)
RowDict   == DictV(<<Item("a", DictV(<<Item("b", IntV(1))>>))>>)
RowNone   == DictV(<<Item("b", None)>>)
Elements  == {RowAB, RowBA, RowBC, RowList, RowDict, RowNone, IntV(5)}

TabularData == Elements \cup {ListV(q) : q \in UNION {[1..n -> Elements] : n \in 0..MaxRows}}

\* the configs an exporter is built with
ExportConfigs ==
    {[key \in fk \cup tk |-> IF key = "format" THEN f ELSE FALSE] :
        fk \in {{}, {"format"}}, tk \in {{}, {"timestamp"}},
        f \in {"csv", "xlsx", "docx", "txt", "xml"}}

NoCall == [op |-> "", arg |-> None, ret |-> << >>, raised |-> ""]

EmptyDir == [q \in {} |-> FileOf("", FALSE, Partial)]

IdleExport ==
    /\ xConfig = [key \in {} |-> FALSE] /\ excel_available = TRUE /\ docx_available = TRUE
    /\ files = EmptyDir /\ now = 0 /\ xLog = << >> /\ xOp = NoCall
    /\ xBefore = EmptyDir /\ xCalls = 0 /\ xBudget = 0

\* a new exporter on an empty output directory
NewExporter ==
    /\ xConfig \in ExportConfigs
    /\ excel_available \in BOOLEAN /\ docx_available \in BOOLEAN
    /\ files = EmptyDir /\ now = 0 /\ xLog = << >> /\ xOp = NoCall
    /\ xBefore = EmptyDir /\ xCalls = 0

InitExport == NewExporter /\ xBudget = MaxCalls
InitBatch  == NewExporter /\ xBudget = 1
InitTabular == NewExporter /\ xBudget = 1

ThisExporter == Exporter(xConfig, excel_available, docx_available)

Returned(entry) == IF entry.raised = "" THEN <<entry.path>> ELSE << >>

Export(data, format_type, filename) ==
    /\ xCalls < xBudget
    /\ LET r == export(ThisExporter, files, now, data, format_type, filename, 0)
       IN  /\ files' = r.files
           /\ xLog' = Append(xLog, r.entry)
           /\ xOp' = [op |-> "export", arg |-> data, ret |-> Returned(r.entry),
                      raised |-> r.entry.raised]
    /\ xBefore' = files /\ xCalls' = xCalls + 1
    /\ UNCHANGED <<xConfig, excel_available, docx_available, now, xBudget>>
    /\ UNCHANGED notExport

ExportMultiple(datasets) ==
    /\ xCalls < xBudget
    /\ LET r == export_multiple(ThisExporter, files, now, datasets, "batch")
       IN  /\ files' = r.files
           /\ xLog' = xLog \o r.log
           /\ xOp' = [op |-> "export_multiple", arg |-> ListV(datasets), ret |-> r.ret,
                      raised |-> ""]
    /\ xBefore' = files /\ xCalls' = xCalls + 1
    /\ UNCHANGED <<xConfig, excel_available, docx_available, now, xBudget>>
    /\ UNCHANGED notExport

ExportCombined(datasets) ==
    /\ xCalls < xBudget
    /\ LET r == export_combined(ThisExporter, files, now, datasets, "combined")
       IN  /\ files' = r.files
           /\ xLog' = xLog \o r.log
           /\ xOp' = [op |-> "export_combined", arg |-> ListV(datasets), ret |-> r.ret,
                      raised |-> r.raised]
    /\ xBefore' = files /\ xCalls' = xCalls + 1
    /\ UNCHANGED <<xConfig, excel_available, docx_available, now, xBudget>>
    /\ UNCHANGED notExport

\* a second passes
Tick ==
    /\ now < MaxClock
    /\ now' = now + 1
    /\ UNCHANGED <<xConfig, excel_available, docx_available, files, xLog, xOp, xBefore,
                   xCalls, xBudget>>
    /\ UNCHANGED notExport

ExportNext ==
    \/ \E data \in Records, format_type \in FormatArgs, filename \in FilenameArgs :
           Export(data, format_type, filename)
    \/ Tick

TabularNext ==
    \E data \in TabularData, format_type \in {"csv", "xlsx"} : Export(data, format_type, NoArg)

BatchNext ==
    \/ \E datasets \in Batches : ExportMultiple(datasets)
    \/ \E datasets \in Batches : ExportCombined(datasets)
    \/ Tick

(***************************************************************************)
(* URLs (utils.py 47-101).  A URL is kept as the parts urlparse splits its *)
(* text into: "scheme:" "//netloc" "path" "#frag", each empty when the     *)
(* text lacks it.  The paths of the inputs are empty or absolute.          *)
(***************************************************************************)
Url(scheme, netloc, path, frag) ==
    [scheme |-> scheme, netloc |-> netloc, path |-> path, frag |-> frag]

EmptyUrl == Url("", "", "", "")      \* the text ""

\* urlparse lowercases the scheme
LowerScheme(scheme) ==
    CASE scheme = "HTTP" -> "http" [] scheme = "HTTPS" -> "https" [] OTHER -> scheme

\* urlunparse(urlparse(url))
Reparse(target) == [target EXCEPT !.scheme = LowerScheme(target.scheme)]

\* url.startswith(('http://', 'https://'))
StartsWithHttp(target) == target.scheme \in {"http", "https"} /\ target.netloc # ""

\* the schemes of inputs that urllib lists in uses_relative and uses_netloc
uses_relative == {"", "http", "https", "ftp"}

\* urllib.parse.urljoin(base, url)
urljoin(base, target) ==
    LET b == Reparse(base)
        u == Reparse(target)
        scheme == IF u.scheme = "" THEN b.scheme ELSE u.scheme
    IN  IF base = EmptyUrl THEN target
        ELSE IF target = EmptyUrl THEN base
        ELSE IF scheme # b.scheme \/ scheme \notin uses_relative THEN target
        ELSE IF u.netloc # "" THEN Url(scheme, u.netloc, u.path, u.frag)
        ELSE IF u.path = "" THEN Url(scheme, b.netloc, b.path, u.frag)
        ELSE Url(scheme, b.netloc, u.path, u.frag)

\* a normalize_url that never resolves against the base
normalize_url_NoBase(target, base_url) ==
    IF target = EmptyUrl THEN EmptyUrl ELSE Reparse(target)

\* lines 47-67; base_url None is EmptyUrl, as falsy as the empty text
normalize_url(target, base_url) ==
    IF target = EmptyUrl THEN EmptyUrl
    ELSE IF base_url # EmptyUrl /\ ~StartsWithHttp(target) THEN Reparse(urljoin(base_url, target))
    ELSE Reparse(target)

\* lines 87-101
is_valid_url(target) == target.scheme # "" /\ target.netloc # ""

(***************************************************************************)
(* clean_text (utils.py 20-44) on texts as sequences of characters         *)
(***************************************************************************)
Ctl == "<SOH>"                       \* one character that is not printable

IsWhite(c) == c \in {" ", "\t", "\n"}

RECURSIVE StripWs(_)
\* text.strip()
StripWs(text) ==
    IF text = << >> THEN text
    ELSE IF IsWhite(Head(text)) THEN StripWs(Tail(text))
    ELSE IF IsWhite(text[Len(text)]) THEN StripWs(SubSeq(text, 1, Len(text) - 1))
    ELSE text

\* re.sub(r'\s+', ' ', text): every run of whitespace becomes one space
Collapse(text) ==
    LET spaced == [i \in 1..Len(text) |-> IF IsWhite(text[i]) THEN " " ELSE text[i]]
        first  == SelectSeq([i \in 1..Len(text) |-> i],
                            LAMBDA i : ~(IsWhite(text[i]) /\ i > 1 /\ IsWhite(text[i - 1])))
    IN  [k \in 1..Len(first) |-> spaced[first[k]]]

\* text.rsplit(' ', 1)[0]
RSplitHead(text) ==
    LET spaces == {i \in 1..Len(text) : text[i] = " "}
    IN  IF spaces = {} THEN text
        ELSE SubSeq(text, 1, (CHOOSE i \in spaces : \A j \in spaces : j <= i) - 1)

Ellipsis == <<".", ".", ".">>

NoMax == 0                           \* max_length None

\* lines 20-44
clean_text(text, max_length) ==
    LET cleaned == SelectSeq(Collapse(StripWs(text)), LAMBDA c : c # Ctl)
    IN  IF max_length # NoMax /\ Len(cleaned) > max_length
        THEN RSplitHead(SubSeq(cleaned, 1, max_length)) \o Ellipsis
        ELSE cleaned

(***************************************************************************)
(* DataValidator.validate_url_data (utils.py 248-302).  A record is a      *)
(* function from its keys to tagged values: UrlV, StrV of a text, ListV,   *)
(* MapV.                                                                   *)
(***************************************************************************)
UrlV(u) == [t |-> "url", v |-> u]

TitleMax       == 200       \* utils.py 266
LinkTextMax    == 100       \* utils.py 278, 288, 289
DefaultMaxText == 10000     \* config.py 62: extraction.max_text_length

\* data.get('url'): None and '' are both falsy
RecordUrl(data) == IF "url" \in DOMAIN data THEN data["url"].v ELSE EmptyUrl

\* entry.get(key, '')
TextOf(entry, key) == IF key \in DOMAIN entry THEN entry[key].v ELSE << >>

\* lines 275-281
clean_link(link, base) ==
    MapV([url  |-> UrlV(normalize_url(link.v["url"].v, base)),
          text |-> StrV(clean_text(TextOf(link.v, "text"), LinkTextMax))])

\* lines 286-293
clean_img(img, base) ==
    MapV([src   |-> UrlV(normalize_url(img.v["src"].v, base)),
          alt   |-> StrV(clean_text(TextOf(img.v, "alt"), LinkTextMax)),
          title |-> StrV(clean_text(TextOf(img.v, "title"), LinkTextMax))])

RECURSIVE CleanEntries(_, _, _)
\* the loops of lines 274-281 and 286-293: key is 'url' for links, 'src' for images
CleanEntries(entries, key, base) ==
    IF entries = << >> THEN << >>
    ELSE LET entry == Head(entries)
             rest  == CleanEntries(Tail(entries), key, base)
         IN  IF entry.t = "map" /\ key \in DOMAIN entry.v
             THEN LET clean == IF key = "url" THEN clean_link(entry, base)
                               ELSE clean_img(entry, base)
                  IN  IF is_valid_url(clean.v[key].v) THEN <<clean>> \o rest ELSE rest
             ELSE rest

validate_url_data(data) ==
    [key \in DOMAIN data |->
        CASE key = "url" -> UrlV(normalize_url(data[key].v, EmptyUrl))
          [] key = "title" -> StrV(clean_text(data[key].v, TitleMax))
          [] key = "text_content" -> StrV(clean_text(data[key].v, NoMax))
          [] key = "links" /\ data[key].t = "list"
               -> ListV(CleanEntries(data[key].v, "url", RecordUrl(data)))
          [] key = "images" /\ data[key].t = "list"
               -> ListV(CleanEntries(data[key].v, "src", RecordUrl(data)))
          [] OTHER -> data[key]]

\* ---- inputs ----
PageUrl  == Url("https", "a.com", "/p", "")
Absolute == Url("https", "b.com", "/x", "")
Fragment == Url("", "", "", "top")

\* targets of links and images: absolute ones, in upper case too, a path, a
\* fragment, a scheme-relative one, ones with a scheme and no host, the empty text
Targets ==
    {Absolute, Url("HTTP", "b.com", "", ""), Url("", "", "/x", ""), Fragment,
     Url("", "cdn.com", "/x", ""), Url("mailto", "", "/x", ""), Url("https", "", "/x", ""),
     EmptyUrl}

LinkEntries ==
    {MapV([url |-> UrlV(u)]) : u \in Targets}
        \cup {MapV([url |-> UrlV(Absolute), text |-> StrV(<<" ", "a", "\t", " ", "b">>)]),
              MapV([text |-> StrV(<<"a">>)]),
              StrV(<<"a">>)}

ImageEntries ==
    {MapV([src |-> UrlV(u)]) : u \in {Absolute, Fragment}}
        \cup {MapV([alt |-> StrV(<<"a">>)]), StrV(<<"a">>)}

ListsOf(entries, n) == {ListV(q) : q \in UNION {[1..k -> entries] : k \in 0..n}}

\* a record from the values of its optional fields
Opt(d, key, o) == IF o = Absent THEN d ELSE Put(d, key, o)

\* records with links and images, with and without a url of their own
LinkRecords ==
    {Opt(Opt(Opt([k \in {"status"} |-> IntV(2)], "url", u), "links", l), "images", i) :
        u \in {Absent, UrlV(EmptyUrl), UrlV(PageUrl), UrlV(Url("", "", "/p", ""))},
        l \in {Absent, StrV(<<"a">>)} \cup ListsOf(LinkEntries, MaxLinks),
        i \in {Absent} \cup ListsOf(ImageEntries, MaxImages)}

\* text * n
Rep(text, n) == [i \in 1..(Len(text) * n) |-> text[((i - 1) % Len(text)) + 1]]

Word == <<"w", "o", "r", "d", " ">>

\* free texts: short ones, with whitespace and a control character to clean,
\* and ones around and beyond 200 characters, with and without spaces
Texts ==
    {<< >>, <<"h", "i">>, <<" ", "h", "i", "\t", "\n", Ctl, "y", "o", "u", " ">>,
     Rep(Word, 3), Rep(<<"x">>, 12),
     Rep(<<"x">>, TitleMax), Rep(<<"x">>, TitleMax + 1), Rep(Word, 41),
     <<"a", " ">> \o Rep(<<"x">>, TitleMax), Rep(<<"x">>, DefaultMaxText + 4)}

TextRecords ==
    {Opt(Opt([k \in {"status"} |-> IntV(2)], "title", t), "text_content", c) :
        t \in {Absent} \cup {StrV(x) : x \in Texts},
        c \in {Absent} \cup {StrV(x) : x \in Texts}}

\* values of extraction.max_text_length: the default and a small one
ConfiguredLimits == {DefaultMaxText, 10}

NoRecord == [k \in {} |-> None]

IdleValidate ==
    /\ max_text_length = DefaultMaxText /\ vData = NoRecord /\ vOut = NoRecord /\ vPc = "new"

InitValidate ==
    /\ max_text_length \in ConfiguredLimits
    /\ vData = NoRecord /\ vOut = NoRecord /\ vPc = "new"

Validate(data) ==
    /\ vPc = "new"
    /\ vData' = data
    /\ vOut' = validate_url_data(data)
    /\ vPc' = "validated"
    /\ UNCHANGED max_text_length
    /\ UNCHANGED notValidate

ValidateNext ==
    \/ \E data \in LinkRecords : Validate(data)
    \/ \E data \in TextRecords : Validate(data)

\* texts of links and images around and beyond 100 characters
EntryTexts == {<<"a">>, Rep(<<"x">>, LinkTextMax + 1), Rep(Word, 21)}

\* records whose title and whose link and image texts reach the truncation
\* lengths of lines 266, 278, 288 and 289
LongRecords ==
    {Opt(Opt(Opt(Opt([k \in {"status"} |-> IntV(2)], "url", u), "title", t), "links", l),
         "images", i) :
        u \in {Absent, UrlV(PageUrl)},
        t \in {Absent} \cup {StrV(x) : x \in Texts \ {Rep(<<"x">>, DefaultMaxText + 4)}},
        l \in {Absent} \cup {ListV(<<MapV([url |-> UrlV(Absolute), text |-> StrV(x)])>>) :
                                x \in EntryTexts},
        i \in {Absent} \cup {ListV(<<MapV([src |-> UrlV(Absolute), alt |-> StrV(x),
                                           title |-> StrV(x)])>>) : x \in EntryTexts}}

\* validate_url_data(validate_url_data(r)): the returned record is passed
\* to the validator again
Revalidate ==
    /\ vPc = "validated"
    /\ vData' = vOut
    /\ vOut' = validate_url_data(vOut)
    /\ vPc' = "revalidated"
    /\ UNCHANGED max_text_length
    /\ UNCHANGED notValidate

RevalidateNext ==
    \/ \E data \in LongRecords : Validate(data)
    \/ Revalidate

(***************************************************************************)
(* Rendering two records with _write_dict_to_text (exporters.py 304-319)   *)
(* or _add_dict_to_docx (285-302)                                          *)
(***************************************************************************)
Leaf == DictV(<<Item("a", IntV(1))>>)

\* values of a field: scalars, an empty and a one-key dict, a list of a
\* scalar and a list of a dict
NestedValues ==
    {IntV(1), IntV(2), DictV(<< >>), Leaf, ListV(<<IntV(1)>>), ListV(<<Leaf>>)}

\* records of one or two fields
NestedRecords ==
    {DictV(<<Item(k, v)>>) : k \in {"a", "b"}, v \in NestedValues}
        \cup {DictV(<<Item(k[1], v), Item(k[2], w)>>) :
                 k \in {<<"a", "b">>, <<"b", "a">>}, v \in NestedValues, w \in NestedValues}

IdleRender ==
    /\ rA = DictV(<< >>) /\ rB = DictV(<< >>) /\ rKind = ""
    /\ rOutA = << >> /\ rOutB = << >>

InitRender ==
    /\ rA \in NestedRecords /\ rB \in NestedRecords /\ rKind = ""
    /\ rOutA = << >> /\ rOutB = << >>

\* self._write_dict_to_text(f, data) for each of the two records
RenderText ==
    /\ rKind = ""
    /\ rKind' = "txt"
    /\ rOutA' = _write_dict_to_text(rA.v, 0)
    /\ rOutB' = _write_dict_to_text(rB.v, 0)
    /\ UNCHANGED <<rA, rB>>
    /\ UNCHANGED notRender

\* self._add_dict_to_docx(document, data) for each of the two records
RenderDocx ==
    /\ rKind = ""
    /\ rKind' = "docx"
    /\ rOutA' = _add_dict_to_docx(rA.v, 2)
    /\ rOutB' = _add_dict_to_docx(rB.v, 2)
    /\ UNCHANGED <<rA, rB>>
    /\ UNCHANGED notRender

RenderNext == RenderText \/ RenderDocx

(***************************************************************************)
(* ProgressTracker (utils.py 331-379).  A quotient of the float arithmetic *)
(* is kept as an exact fraction in lowest terms.                           *)
(***************************************************************************)
Abs(n) == IF n < 0 THEN -n ELSE n

RECURSIVE GCD(_, _)
GCD(m, n) == IF n = 0 THEN m ELSE GCD(n, m % n)

\* n / d
Rat(n, d) ==
    LET g == GCD(Abs(n), d)
    IN  [num |-> n \div g, den |-> d \div g]

NoError == "<None>"      \* the argument error left at None

ErrorArgs == {NoError, "", "Sample error"}

TotalItems == {0, 2, 5}

NoTrackerCall == [op |-> "", success |-> TRUE, error |-> NoError, ret |-> [k \in {} |-> 0]]

IdleTracker ==
    /\ total_items = 0 /\ completed_items = 0 /\ failed_items = 0
    /\ start_time = 0 /\ errors = << >> /\ clock = 0
    /\ tOp = NoTrackerCall /\ tUpdates = 0

\* lines 336-341
InitTracker ==
    /\ total_items \in TotalItems /\ completed_items = 0 /\ failed_items = 0
    /\ start_time = 0 /\ errors = << >> /\ clock = 0
    /\ tOp = NoTrackerCall /\ tUpdates = 0

\* an update that counts a failed item as completed too
update_CountsEveryItem(success, error) ==
    /\ completed_items' = completed_items + 1
    /\ failed_items' = IF success THEN failed_items ELSE failed_items + 1
    /\ errors' = IF ~success /\ error \notin {NoError, ""}
                 THEN Append(errors, [timestamp |-> clock, error |-> error])
                 ELSE errors

\* lines 343-353
update(success, error) ==
    /\ completed_items' = IF success THEN completed_items + 1 ELSE completed_items
    /\ failed_items' = IF success THEN failed_items ELSE failed_items + 1
    /\ errors' = IF ~success /\ error \notin {NoError, ""}
                 THEN Append(errors, [timestamp |-> clock, error |-> error])
                 ELSE errors

Update(success, error) ==
    /\ tUpdates < MaxUpdates
    /\ update(success, error)
    /\ tOp' = [op |-> "update", success |-> success, error |-> error, ret |-> [k \in {} |-> 0]]
    /\ tUpdates' = tUpdates + 1
    /\ UNCHANGED <<total_items, start_time, clock>>
    /\ UNCHANGED notTracker

\* a success rate over the total number of items
get_progress_RateOfTotal ==
    LET total_processed == completed_items + failed_items
    IN  [key \in {"total_items", "completed", "failed", "total_processed", "elapsed_time",
                  "success_rate"} |->
            CASE key = "total_items" -> total_items
              [] key = "completed" -> completed_items
              [] key = "failed" -> failed_items
              [] key = "total_processed" -> total_processed
              [] key = "elapsed_time" -> clock - start_time
              [] key = "success_rate" ->
                   IF total_items > 0 THEN Rat(completed_items * 100, total_items)
                   ELSE Rat(0, 1)]

\* lines 355-379: the dict get_progress returns
get_progress ==
    LET elapsed_time    == clock - start_time
        total_processed == completed_items + failed_items
        keys == {"total_items", "completed", "failed", "total_processed", "elapsed_time",
                 "success_rate"}
                  \cup (IF total_items > 0 THEN {"percentage"} ELSE {})
                  \cup (IF total_items > 0 /\ total_processed > 0
                        THEN {"estimated_remaining"} ELSE {})
    IN  [key \in keys |->
            CASE key = "total_items" -> total_items
              [] key = "completed" -> completed_items
              [] key = "failed" -> failed_items
              [] key = "total_processed" -> total_processed
              [] key = "elapsed_time" -> elapsed_time
              [] key = "success_rate" ->
                   IF total_processed > 0 THEN Rat(completed_items * 100, total_processed)
                   ELSE Rat(0, 1)
              [] key = "percentage" -> Rat(total_processed * 100, total_items)
              [] key = "estimated_remaining" ->
                   Rat(elapsed_time * (total_items - total_processed), total_processed)]

GetProgress ==
    /\ tOp' = [op |-> "get_progress", success |-> TRUE, error |-> NoError, ret |-> get_progress]
    /\ UNCHANGED <<total_items, completed_items, failed_items, start_time, errors, clock,
                   tUpdates>>
    /\ UNCHANGED notTracker

\* a second passes
TrackerTick ==
    /\ clock < MaxTrackerClock
    /\ clock' = clock + 1
    /\ UNCHANGED <<total_items, completed_items, failed_items, start_time, errors, tOp,
                   tUpdates>>
    /\ UNCHANGED notTracker

TrackerNext ==
    \/ \E success \in BOOLEAN, error \in ErrorArgs : Update(success, error)
    \/ GetProgress
    \/ TrackerTick

(***************************************************************************)
(* Specifications                                                          *)
(***************************************************************************)
Init == InitScrape /\ IdleMerge /\ IdleConfig /\ IdleAccess /\ IdleExport /\ IdleValidate /\ IdleRender /\ IdleTracker
Next == ScrapeNext
Spec == Init /\ [][Next]_vars

InitM == IdleScrape /\ InitMerge /\ IdleConfig /\ IdleAccess /\ IdleExport /\ IdleValidate /\ IdleRender /\ IdleTracker
NextM == MergeNext
SpecMerge == InitM /\ [][NextM]_vars

InitC == IdleScrape /\ IdleMerge /\ InitConfig /\ IdleAccess /\ IdleExport /\ IdleValidate /\ IdleRender /\ IdleTracker
NextC == ConfigNext
SpecConfig == InitC /\ [][NextC]_vars

InitCF == IdleScrape /\ IdleMerge /\ InitConfigFile /\ IdleAccess /\ IdleExport /\ IdleValidate /\ IdleRender /\ IdleTracker
NextCF == LoadConfigFile \/ LoadEnv \/ ValidateConfig
SpecConfigFile == InitCF /\ [][NextCF]_vars

InitX == IdleScrape /\ IdleMerge /\ IdleConfig /\ IdleAccess /\ InitExport /\ IdleValidate /\ IdleRender /\ IdleTracker
NextX == ExportNext
SpecExport == InitX /\ [][NextX]_vars

InitB == IdleScrape /\ IdleMerge /\ IdleConfig /\ IdleAccess /\ InitBatch /\ IdleValidate /\ IdleRender /\ IdleTracker
NextB == BatchNext
SpecBatch == InitB /\ [][NextB]_vars

InitT == IdleScrape /\ IdleMerge /\ IdleConfig /\ IdleAccess /\ InitTabular /\ IdleValidate /\ IdleRender /\ IdleTracker
NextT == TabularNext
SpecTabular == InitT /\ [][NextT]_vars

InitV == IdleScrape /\ IdleMerge /\ IdleConfig /\ IdleAccess /\ IdleExport /\ InitValidate /\ IdleRender /\ IdleTracker
NextV == ValidateNext
SpecValidate == InitV /\ [][NextV]_vars

NextV2 == RevalidateNext
SpecRevalidate == InitV /\ [][NextV2]_vars

InitR == IdleScrape /\ IdleMerge /\ IdleConfig /\ IdleAccess /\ IdleExport /\ IdleValidate
            /\ InitRender /\ IdleTracker
NextR == RenderNext
SpecRender == InitR /\ [][NextR]_vars

InitP == IdleScrape /\ IdleMerge /\ IdleConfig /\ IdleAccess /\ IdleExport /\ IdleValidate
            /\ IdleRender /\ InitTracker
NextP == TrackerNext
SpecTracker == InitP /\ [][NextP]_vars

InitA == IdleScrape /\ IdleMerge /\ IdleConfig /\ InitAccess /\ IdleExport /\ IdleValidate /\ IdleRender /\ IdleTracker
NextA == AccessNext
SpecAccess == InitA /\ [][NextA]_vars

(***************************************************************************)
(* Properties of WebScraper.scrape                                         *)
(***************************************************************************)
Exceptions == TransportErrors \cup {"ValueError"}

Finished == pc \in {"returned", "raised"}

NumOf(e) == Cardinality({i \in 1..Len(events) : events[i] = e})

\* requests and sleeps alternate, starting with a request
Alternating == \A i \in 1..Len(events) : events[i] = IF i % 2 = 1 THEN "req" ELSE "sleep"

OnlyTransportErrors == \A i \in 1..Len(outcomes) : outcomes[i] \in TransportErrors

OnlyNon200 == \A i \in 1..Len(outcomes) : outcomes[i] = "non200"

\* all max_retries attempts were made and none of them saw a 200 response
Exhausted ==
    /\ Len(outcomes) = max_retries
    /\ \A i \in 1..Len(outcomes) : outcomes[i] # "ok"

\* C1: with max_retries N >= 1 and every request raising a transport
\* exception, scrape makes exactly N requests with exactly N-1 sleeps of
\* retry_delay, each between two requests and none after the last, and then
\* raises the exception of the last attempt.
C1_AllAttemptsRaise ==
    (max_retries >= 1 /\ OnlyTransportErrors) =>
        /\ pc \in {"loop", "sleep", "raised"}
        /\ Len(outcomes) <= max_retries
        /\ Alternating
        /\ NumOf("req") = Len(outcomes)
        /\ slept = retry_delay * NumOf("sleep")
        /\ (pc = "loop" => attempt < max_retries)
        /\ (pc = "sleep" => Len(outcomes) < max_retries)
        /\ (pc = "raised" <=> Len(outcomes) = max_retries)
        /\ (pc = "raised" =>
                /\ NumOf("req") = max_retries
                /\ NumOf("sleep") = max_retries - 1
                /\ events[Len(events)] = "req"
                /\ slept = (max_retries - 1) * retry_delay
                /\ raised = outcomes[max_retries])

C1_Witness ==
    /\ max_retries = 3
    /\ OnlyTransportErrors
    /\ pc = "raised"
    /\ events = <<"req", "sleep", "req", "sleep", "req">>
    /\ slept = 2 * retry_delay
    /\ raised \in TransportErrors

\* C2: a non-final attempt that ends with a non-200 response is followed by a
\* sleep of retry_delay before the next request, exactly as after a transport
\* exception: requests and sleeps alternate and every sleep lasts retry_delay.
C2_SleepAfterEveryFailure ==
    /\ Alternating
    /\ slept = retry_delay * NumOf("sleep")

\* C3 as claimed: whenever all max_retries attempts were used without a 200
\* response, scrape ends with an error and not with a Record.
C3_ExhaustionAlwaysRaises ==
    (max_retries >= 1 /\ Finished /\ Exhausted) => pc = "raised"

\* C3: whenever all max_retries >= 1 attempts were used without a 200
\* response, scrape ends with the exception of the last attempt if that
\* attempt raised one, and with the empty Record if it got a non-200 response.
C3_ExhaustionRaisesLastException ==
    (max_retries >= 1 /\ Finished /\ Exhausted) =>
        /\ (pc = "raised" <=> outcomes[max_retries] \in Exceptions)
        /\ (pc = "raised" => raised = outcomes[max_retries])
        /\ (pc = "returned" => result = EmptyRecord /\ raised = "")

C3_Witness ==
    /\ max_retries = 3
    /\ Exhausted
    /\ outcomes[1] = "non200"
    /\ outcomes[3] \in TransportErrors
    /\ pc = "raised"
    /\ raised = outcomes[3]

\* C4: when no attempt raises and none returns 200, scrape makes exactly
\* max_retries requests and then returns the empty Record without raising.
C4_OnlyNon200ReturnsEmpty ==
    OnlyNon200 =>
        /\ pc \in {"loop", "returned"}
        /\ raised = ""
        /\ Len(outcomes) <= max_retries
        /\ events = [i \in 1..Len(outcomes) |-> "req"]
        /\ (pc = "returned" =>
                /\ Len(outcomes) = max_retries
                /\ NumOf("req") = max_retries
                /\ result = EmptyRecord)

C4_Witness ==
    /\ max_retries = 3
    /\ outcomes = <<"non200", "non200", "non200">>
    /\ pc = "returned"
    /\ result = EmptyRecord
    /\ raised = ""

JsonContentTypes ==
    { APPLICATION_JSON,
      <<"A","p","p","l","i","c","a","t","i","o","n","/","J","S","O","N">> }

UndecodableBodies == {"<html><title>T</title></html>", "{oops"}

\* scrape returned from an attempt that got a 200 response
Returned200 ==
    /\ pc = "returned"
    /\ Len(outcomes) >= 1
    /\ outcomes[Len(outcomes)] = "ok"

\* C5: a 200 response with a JSON content type and an undecodable body makes
\* scrape return, on that attempt, a Record tagged json_error with an error
\* message, a URL and the status code; the decode failure is never an
\* exception of the attempt, so it causes no retry, sleep or further request.
C5_DecodeErrorIsARecord ==
    /\ \A i \in 1..Len(outcomes) : outcomes[i] \in Exceptions \cup {"non200", "ok"}
    /\ raised \in Exceptions \cup {""}
    /\ (Returned200 /\ lastResp.content_type \in JsonContentTypes
                    /\ lastResp.body \in UndecodableBodies) =>
            /\ DOMAIN result = {"type", "error", "url", "status_code"}
            /\ result.type = "json_error"
            /\ result.error = "Invalid JSON response"
            /\ result.url = lastResp.url
            /\ result.status_code = 200
            /\ raised = ""
            /\ events[Len(events)] = "req"
            /\ NumOf("req") = Len(outcomes)

C5_Witness ==
    /\ Returned200
    /\ Len(outcomes) = 2
    /\ lastResp.content_type \in JsonContentTypes
    /\ lastResp.body = "{oops"
    /\ result.type = "json_error"

\* C6: every Record returned for a 200 response carries the URL that was
\* passed to scrape, also when the response came from another final URL, and
\* the status code of the response.
C6_RecordCarriesRequestedUrl ==
    Returned200 =>
        /\ result.url = url
        /\ result.status_code = lastResp.status_code

Requests == Cardinality({i \in 1..Len(events) : events[i] = "req"})

\* C24: scrape performs at most max_retries requests and stops at the first
\* response with status 200: that attempt is the last one, scrape has
\* returned the extraction of that response, and no request and no sleep
\* follows it, whatever failures came before.
C24_StopsAtFirst200 ==
    /\ Requests <= max_retries
    /\ Requests = Len(outcomes)
    /\ \A i \in 1..Len(outcomes) :
          outcomes[i] = "ok"
              => /\ i = Len(outcomes)
                 /\ events[Len(events)] = "req"
                 /\ pc = "returned" /\ raised = ""
                 /\ lastResp.status_code = 200
                 /\ result = _extract_data(lastResp, url, selectors)

\* an exception, a non-200 response and then a 200 response
C24_Witness ==
    /\ max_retries = 3
    /\ Len(outcomes) = 3
    /\ outcomes[1] \in TransportErrors /\ outcomes[2] = "non200" /\ outcomes[3] = "ok"
    /\ events = <<"req", "sleep", "req", "req">>
    /\ pc = "returned"

\* C27: when scrape runs out of attempts without a 200 response, it raises
\* exactly when the last attempt raised an exception, and then that exception;
\* when the last attempt returned a non-200 response, whatever the earlier
\* attempts did, or when max_retries is 0 and no request is made, it returns
\* the empty Record and raises nothing.
C27_OutcomeFollowsLastAttempt ==
    (pc \in {"returned", "raised"} /\ \A i \in 1..Len(outcomes) : outcomes[i] # "ok")
        => LET last == IF outcomes = << >> THEN "none" ELSE outcomes[Len(outcomes)]
           IN  /\ Len(outcomes) = max_retries
               /\ (pc = "raised") <=> (last \notin {"none", "non200"})
               /\ (pc = "raised") => raised = last
               /\ (pc = "returned") => (raised = "" /\ result = EmptyRecord)
               /\ (max_retries = 0) => (pc = "returned" /\ events = << >>)

\* an exception first, then a non-200 response on the last attempt: the empty
\* Record is returned
C27_Witness ==
    /\ max_retries = 2
    /\ pc = "returned"
    /\ Len(outcomes) = 2
    /\ outcomes[1] \in TransportErrors /\ outcomes[2] = "non200"
    /\ result = EmptyRecord /\ raised = ""

\* the content type of the 200 response, in lower case; empty without header
SentType ==
    IF lastResp.content_type = NoHeader THEN << >>
    ELSE [i \in 1..Len(lastResp.content_type) |-> LowerChar(lastResp.content_type[i])]

SaysJson == Contains(APPLICATION_JSON, SentType)
SaysHtml == Contains(TEXT_HTML, SentType)

RECURSIVE MergedAsClaimed(_, _, _)

\* r is b with u merged in: keys in both as mappings are merged recursively,
\* any other key of u replaces, keys only in b are kept
MergedAsClaimed(b, u, r) ==
    /\ DOMAIN r = DOMAIN b \cup DOMAIN u
    /\ \A k \in DOMAIN r :
        IF k \notin DOMAIN u THEN r[k] = b[k]
        ELSE IF k \in DOMAIN b /\ b[k].t = "map" /\ u[k].t = "map"
             THEN r[k].t = "map" /\ MergedAsClaimed(b[k].v, u[k].v, r[k].v)
             ELSE r[k] = u[k]

\* C7: deep merge merges a key present in both sides as mappings recursively,
\* lets any other key of the override replace the base value wholesale and
\* keeps every key present only in the base; {a:{x:1,y:2}} merged with
\* {a:{y:3,z:4}} is {a:{x:1,y:3,z:4}}.
C7_DeepMerge ==
    mPc = "merged" =>
        /\ MergedAsClaimed(mBase, mUpdate, mResult)
        /\ (mBase = ExampleBase /\ mUpdate = ExampleUpdate => mResult = ExampleMerged)

C7_Witness ==
    /\ mPc = "merged"
    /\ mBase = [a |-> MapV([x |-> MapV([p |-> IntV(1)]), y |-> IntV(1)]), b |-> IntV(2)]
    /\ mUpdate = [a |-> MapV([x |-> MapV([p |-> IntV(2)])])]
    /\ mResult = [a |-> MapV([x |-> MapV([p |-> IntV(2)]), y |-> IntV(1)]), b |-> IntV(2)]

At(cfg, section, key) == cfg[section].v[key]

\* C8: the built config has timeout > 0, max_retries >= 0 and a format of the
\* enumerated set; a timeout <= 0 became 30, a negative max_retries 3, any
\* other format json, and a valid value is the one the layers supplied.
C8_ValidatedConfig ==
    cPc = "ready" =>
        LET t0 == At(layered, "scraping", "timeout").v
            r0 == At(layered, "scraping", "max_retries").v
            f0 == At(layered, "output", "format").v
            t1 == At(config, "scraping", "timeout").v
            r1 == At(config, "scraping", "max_retries").v
            f1 == At(config, "output", "format").v
        IN  /\ t1 > 0 /\ r1 >= 0 /\ f1 \in {"json", "csv", "xlsx", "docx", "txt"}
            /\ t1 = IF t0 <= 0 THEN 30 ELSE t0
            /\ r1 = IF r0 < 0 THEN 3 ELSE r0
            /\ f1 = IF f0 \in {"json", "csv", "xlsx", "docx", "txt"} THEN f0 ELSE "json"

C8_Witness ==
    /\ cPc = "ready"
    /\ At(layered, "scraping", "timeout") = IntV(-5)
    /\ At(config, "scraping", "timeout") = IntV(30)
    /\ At(layered, "scraping", "max_retries") = IntV(-1)
    /\ At(config, "scraping", "max_retries") = IntV(3)
    /\ At(layered, "output", "format") = StrV("pdf")
    /\ At(config, "output", "format") = StrV("json")

\* what Python makes of the environment texts of Environments
EnvMeaning(m, text) ==
    CASE m.type_func = "int" /\ text = <<"0">>      -> [ok |-> TRUE, value |-> IntV(0)]
      [] m.type_func = "int" /\ text = <<"-","5">>  -> [ok |-> TRUE, value |-> IntV(-5)]
      [] m.type_func = "int" /\ text = <<"-","1">>  -> [ok |-> TRUE, value |-> IntV(-1)]
      [] m.type_func = "int" /\ text = PaddedSeven  -> [ok |-> TRUE, value |-> IntV(7)]
      [] m.type_func = "int"                        -> [ok |-> FALSE, value |-> None]
      [] m.type_func = "bool"                       ->
            [ok |-> TRUE, value |-> BoolV(text = <<"Y","E","S">>)]
      [] OTHER                                      -> [ok |-> TRUE, value |-> StrV(text)]

SourceDefines(section, key) ==
    section \in DOMAIN config_source /\ key \in DOMAIN config_source[section].v

\* the value the override source, else the defaults, give section.key
BelowEnv(m) ==
    IF SourceDefines(m.section, m.key)
    THEN config_source[m.section].v[m.key]
    ELSE _load_default_config[m.section].v[m.key]

Supplied(m) ==
    IF env[m.var].set /\ EnvMeaning(m, env[m.var].text).ok
    THEN EnvMeaning(m, env[m.var].text).value
    ELSE BelowEnv(m)

EnvEntries == {env_mapping[i] : i \in 1..Len(env_mapping)}

\* C9: for every key with a recognized environment variable the value is the
\* variable's when it is set and parsable, else the override source's when it
\* defines the key, else the default; validation starts from exactly these
\* values and has not run before the three layers are in place.
C9_LayerOrder ==
    /\ cPc \in {"new", "merged", "env"} => layered = EmptyDict
    /\ cPc = "merged" => \A m \in EnvEntries : At(config, m.section, m.key) = BelowEnv(m)
    /\ cPc = "env" => \A m \in EnvEntries : At(config, m.section, m.key) = Supplied(m)
    /\ cPc = "ready" => \A m \in EnvEntries : At(layered, m.section, m.key) = Supplied(m)

C9_Witness ==
    /\ cPc = "ready"
    /\ SourceDefines("scraping", "timeout")
    /\ At(config_source, "scraping", "timeout") = IntV(10)
    /\ env["SCRAPER_TIMEOUT"].text = <<"-","5">>
    /\ At(layered, "scraping", "timeout") = IntV(-5)
    /\ At(config, "scraping", "timeout") = IntV(30)
    /\ env["SCRAPER_USE_SELENIUM"].text = <<"n","o">>
    /\ At(layered, "scraping", "use_selenium") = BoolV(FALSE)
    /\ ~env["SCRAPER_OUTPUT_FORMAT"].set
    /\ SourceDefines("output", "format")
    /\ At(layered, "output", "format") = StrV("csv")

UnparsableInts == { <<"a","b","c">>, <<"1",".","5">>, EmptyText }

BadIntEntries ==
    {m \in EnvEntries : m.type_func = "int" /\ env[m.var].set /\ env[m.var].text \in UnparsableInts}

\* C10: an integer environment override set to unparsable text does not make
\* the build fail, leaves its key at the value it has with the variable unset,
\* and the other environment overrides of the build are applied.
C10_UnparsableEnvIgnored ==
    BadIntEntries # {} =>
        /\ cPc # "failed"
        /\ cPc \in {"env", "ready"} =>
            LET c == IF cPc = "env" THEN config ELSE layered
            IN  /\ \A m \in BadIntEntries : At(c, m.section, m.key) = BelowEnv(m)
                /\ \A m \in EnvEntries \ BadIntEntries :
                        env[m.var].set => At(c, m.section, m.key) = EnvMeaning(m, env[m.var].text).value

C10_Witness ==
    /\ cPc = "ready"
    /\ env["SCRAPER_TIMEOUT"].text = <<"a","b","c">>
    /\ env["SCRAPER_MAX_RETRIES"].text = <<"0">>
    /\ env["SCRAPER_LOG_LEVEL"].set
    /\ SourceDefines("scraping", "timeout")
    /\ At(config_source, "scraping", "timeout") = IntV(10)
    /\ At(config, "scraping", "timeout") = IntV(10)
    /\ At(config, "scraping", "max_retries") = IntV(0)
    /\ At(config, "logging", "level") = StrV("DEBUG")

\* the override file is missing, has an unsupported suffix, cannot be parsed
\* or parses to something that is not a mapping
UnusableFile ==
    \/ ~config_file.exists
    \/ config_file.suffix = <<".","t","x","t">>
    \/ config_file.parsed = ParseError
    \/ config_file.parsed \in {None, ListV(<<IntV(1)>>), StrV("text")}

\* the config a build without any override source ends with
BuiltWithoutSource == _validate_config(_load_env_variables(_load_default_config, env).config)

\* C11: a build from an override file that is missing, has an unsupported
\* suffix, cannot be parsed or does not hold a mapping never raises and ends
\* with the config of a build without override source.
C11_UnusableFileIgnored ==
    (config_file # NoFile /\ UnusableFile) =>
        /\ cPc # "failed"
        /\ (cPc = "merged" => config = _load_default_config)
        /\ (cPc = "ready" => config = BuiltWithoutSource)

C11_Witness ==
    /\ cPc = "ready"
    /\ config_file.exists
    /\ config_file.suffix = <<".","t","x","t">>
    /\ config_file.parsed = MapV([scraping |-> MapV([timeout |-> IntV(10)])])
    /\ env["SCRAPER_MAX_RETRIES"].text = <<"-","1">>
    /\ At(config, "scraping", "timeout") = IntV(30)
    /\ At(config, "scraping", "max_retries") = IntV(3)

\* the segments of the key paths of KeyPaths
Segments(key_path) ==
    CASE key_path = <<"scraping", ".", "timeout">> -> <<"scraping", "timeout">>
      [] key_path = <<"scraping">> -> <<"scraping">>
      [] key_path = <<"scraping", ".", "timeout", ".", "unit">> -> <<"scraping", "timeout", "unit">>
      [] key_path = <<"scraping", ".", "headers", ".", "User-Agent">> -> <<"scraping", "headers", "User-Agent">>
      [] key_path = <<"logging", ".", "file">> -> <<"logging", "file">>
      [] key_path = <<"logging", ".", "file", ".", "path">> -> <<"logging", "file", "path">>
      [] key_path = <<"output", ".", "format", ".", "x">> -> <<"output", "format", "x">>
      [] key_path = <<"cache", ".", "dir", ".", "tmp">> -> <<"cache", "dir", "tmp">>
      [] key_path = <<"scraping", ".", ".", "timeout">> -> <<"scraping", "", "timeout">>
      [] key_path = << >> -> <<"">>

\* the value i segments down from the root, when the walk gets that far
RECURSIVE Reach(_, _, _)
Reach(cfg, keys, i) == IF i = 0 THEN MapV(cfg) ELSE Reach(cfg, keys, i - 1).v[keys[i]]

RECURSIVE Walkable(_, _, _)
Walkable(cfg, keys, i) ==
    \/ i = 0
    \/ /\ Walkable(cfg, keys, i - 1)
       /\ Reach(cfg, keys, i - 1).t = "map"
       /\ keys[i] \in DOMAIN Reach(cfg, keys, i - 1).v

\* C12: get returns the value at the full path, the default as soon as a
\* segment is missing or the value reached is not a mapping; it never raises
\* and leaves the config unchanged.
C12_Get ==
    aOp.op = "get" =>
        LET keys == Segments(aOp.key_path)
        IN  /\ aOp.raised = ""
            /\ aConfig = aBefore
            /\ aOp.ret = IF Walkable(aBefore, keys, Len(keys))
                         THEN Reach(aBefore, keys, Len(keys)) ELSE aOp.arg

C12_Witness ==
    /\ aOp.op = "get"
    /\ aOp.key_path = <<"scraping", ".", "timeout", ".", "unit">>
    /\ aOp.arg = IntV(7)
    /\ aSets = 1
    /\ get(aConfig, <<"scraping", ".", "timeout">>, None) = MapV([unit |-> StrV("s")])
    /\ aOp.ret = StrV("s")

IsPrefix(p, q) == Len(p) <= Len(q) /\ SubSeq(q, 1, Len(p)) = p

\* C13: set completes without error for every path and value, a following
\* get of the path returns the value, and the values at paths that are
\* neither a prefix nor an extension of the path are unchanged.
C13_SetThenGet ==
    aOp.op = "set" =>
        /\ aOp.raised = ""
        /\ get(aConfig, aOp.key_path, [t |-> "missing", v |-> 0]) = aOp.arg
        /\ \A q \in KeyPaths :
              (~IsPrefix(Segments(q), Segments(aOp.key_path))
               /\ ~IsPrefix(Segments(aOp.key_path), Segments(q)))
              => get(aConfig, q, None) = get(aBefore, q, None)

(***************************************************************************)
(* Properties of DataExporter and BatchExporter                            *)
(***************************************************************************)
LastExport == xLog[Len(xLog)]

\* the format token a call of export asks for: its argument, the configured
\* format (json when none is configured) when the argument is left out
Token(e) ==
    IF e.format_type = NoArg
    THEN (IF "format" \in DOMAIN xConfig THEN xConfig["format"] ELSE "json")
    ELSE e.format_type

\* C14: export called with a format token outside json, csv, xlsx, docx, txt
\* raises ValueError (unsupported format) and leaves every file of the output
\* directory as it was, creating none.
C14_UnsupportedFormat ==
    (xOp.op = "export" /\ Token(LastExport) \notin {"json", "csv", "xlsx", "docx", "txt"})
        => /\ xOp.raised = "ValueError"
           /\ xOp.ret = << >>
           /\ files = xBefore

\* the second export asks for xml after the first wrote a file
C14_Witness ==
    /\ xOp.op = "export" /\ Len(xLog) = 2
    /\ LastExport.format_type = "xml"
    /\ xOp.raised = "ValueError"
    /\ DOMAIN files # {}

\* the mapping elements of exported data, in input order
Mappings(data) ==
    IF data.t = "dict" THEN <<data>> ELSE SelectSeq(data.v, LAMBDA item : item.t = "dict")

\* position of a key in the order of strings
Rank(key) == CHOOSE i \in 1..Len(KeyOrder) : KeyOrder[i] = key

\* the cell of a row for a key of the header
CellFor(row, key, format) ==
    IF key \notin Keys(row.v) THEN StrV("")
    ELSE LET value == ItemGet(row.v, key, None)
         IN  IF value.t \in {"dict", "list"} THEN [t |-> "json", v |-> value]
             ELSE IF format = "xlsx" THEN value
             ELSE IF value.t = "none" THEN StrV("")
             ELSE IF value.t = "int" THEN StrV(Digits[value.v + 1])
             ELSE value

ExampleRows == ListV(<<RowAB, RowBC>>)

\* C15: a csv or xlsx export of a mapping or of a list with at least one
\* mapping element writes a table whose header is the sorted union of the keys
\* of the mapping elements and whose rows are the mapping elements in input
\* order (other elements dropped); a cell is empty when the row lacks the key,
\* the compact encoding of the value when it is a mapping or a list, and the
\* value otherwise.  The rows {a:1,b:2}, {b:3,c:4} give header a, b, c and the
\* rows {a:1,b:2,c:""}, {a:"",b:3,c:4}.
C15_Tabular ==
    (/\ xOp.op = "export" /\ xOp.raised = ""
     /\ LastExport.format \in {"csv", "xlsx"}
     /\ LastExport.data.t \in {"dict", "list"}
     /\ Mappings(LastExport.data) # << >>)
        => LET e      == LastExport
               maps   == Mappings(e.data)
               table  == files[e.path].body.v
               header == table.header
           IN  /\ xOp.ret = <<e.path>>
               /\ e.path \in DOMAIN files /\ files[e.path].complete
               /\ \A i, j \in 1..Len(header) : i < j => Rank(header[i]) < Rank(header[j])
               /\ {header[i] : i \in 1..Len(header)}
                     = UNION {Keys(maps[i].v) : i \in 1..Len(maps)}
               /\ Len(table.rows) = Len(maps)
               /\ \A i \in 1..Len(maps) :
                     /\ DOMAIN table.rows[i] = {header[k] : k \in 1..Len(header)}
                     /\ \A key \in DOMAIN table.rows[i] :
                           table.rows[i][key] = CellFor(maps[i], key, e.format)
               /\ (e.data = ExampleRows /\ e.format = "xlsx")
                     => /\ header = <<"a", "b", "c">>
                        /\ table.rows = <<[a |-> IntV(1), b |-> IntV(2), c |-> StrV("")],
                                          [a |-> StrV(""), b |-> IntV(3), c |-> IntV(4)]>>

\* the example with its first row built in the other key order, after an
\* element that is not a mapping, exported as csv
C15_Witness ==
    /\ xOp.op = "export" /\ xOp.raised = ""
    /\ LastExport.format = "csv"
    /\ LastExport.data = ListV(<<RowBA, RowBC>>)
    /\ files[LastExport.path].body.v.header = <<"a", "b", "c">>
    /\ files[LastExport.path].body.v.rows
         = <<[a |-> StrV("1"), b |-> StrV("2"), c |-> StrV("")],
             [a |-> StrV(""), b |-> StrV("3"), c |-> StrV("4")]>>

\* the exports that opened or saved their file
Writers == {i \in 1..Len(xLog) : xLog[i].wrote}

\* the filename a call of export asks for: its argument, the configured base
\* name (scraped_data when none is configured) when the argument is left out
NameAsked(e) ==
    IF e.filename = NoArg
    THEN (IF "filename" \in DOMAIN xConfig THEN xConfig["filename"] ELSE "scraped_data")
    ELSE e.filename

Timestamping == IF "timestamp" \in DOMAIN xConfig THEN xConfig["timestamp"] ELSE TRUE

\* C16 as claimed: no export writes to a path that an earlier export of the
\* same exporter wrote to.
C16_FreshPath ==
    \A i, j \in Writers : i < j => xLog[i].path # xLog[j].path

\* C16: two exports of one exporter write to the same path exactly when they
\* ask for the same filename and the same format and, with timestamping
\* enabled, run within the same second; a file then holds what the last export
\* that wrote to its path wrote, and nothing of an earlier one.
C16_PathDetermined ==
    /\ \A i, j \in Writers :
          (xLog[i].path = xLog[j].path)
              <=> /\ NameAsked(xLog[i]) = NameAsked(xLog[j])
                  /\ Token(xLog[i]) = Token(xLog[j])
                  /\ Timestamping => xLog[i].at = xLog[j].at
    /\ DOMAIN files = {xLog[i].path : i \in Writers}
    /\ \A i \in Writers :
          (\A j \in Writers : j > i => xLog[j].path # xLog[i].path)
              => LET e == xLog[i]
                     f == files[e.path]
                 IN  /\ f.kind = Token(e)
                     /\ f.complete = (e.raised = "")
                     /\ (f.complete /\ f.kind = "json") => f.body = e.data
                     /\ (f.complete /\ f.kind = "txt") => f.body = TextLines(e.data, e.at)

\* with timestamping enabled, two exports of different data with the same
\* filename and format ran within one second; the file is the second one's
C16_Witness ==
    /\ Len(xLog) = 2 /\ Writers = {1, 2}
    /\ Timestamping
    /\ xLog[1].path = xLog[2].path
    /\ xLog[1].data = Good /\ xLog[1].raised = ""
    /\ xLog[2].data = Bad /\ xLog[2].raised # ""
    /\ ~files[xLog[2].path].complete

\* the export of a record fails: the record cannot be encoded, the configured
\* format is not supported or its library is missing
ExportFails(record) ==
    LET format == IF "format" \in DOMAIN xConfig THEN xConfig["format"] ELSE "json"
    IN  \/ HasCycle(record)
        \/ format \notin {"json", "csv", "xlsx", "docx", "txt"}
        \/ format = "xlsx" /\ ~excel_available
        \/ format = "docx" /\ ~docx_available

\* C17: export_multiple never raises: it hands every record to export under
\* its numbered filename, those after a failed one included, and returns
\* exactly the paths of the exports that succeeded, in input order, so that
\* the length of the list is the number of records minus the number of
\* failures; every returned path is a completely written file.
C17_BatchSkipsFailures ==
    (xOp.op = "export_multiple")
        => LET datasets == xOp.arg.v
               ok       == {i \in 1..Len(datasets) : ~ExportFails(datasets[i])}
           IN  /\ xOp.raised = ""
               /\ Len(xLog) = Len(datasets)
               /\ \A i \in 1..Len(datasets) :
                     /\ xLog[i].data = datasets[i]
                     /\ xLog[i].filename = "batch" /\ xLog[i].num = i
                     /\ (xLog[i].raised = "") <=> (i \in ok)
               /\ Len(xOp.ret) = Len(datasets) - Cardinality((1..Len(datasets)) \ ok)
               /\ \E pos \in [1..Len(xOp.ret) -> ok] :
                     /\ \A k, l \in 1..Len(xOp.ret) : k < l => pos[k] < pos[l]
                     /\ \A k \in 1..Len(xOp.ret) : xOp.ret[k] = xLog[pos[k]].path
               /\ \A k \in 1..Len(xOp.ret) :
                     xOp.ret[k] \in DOMAIN files /\ files[xOp.ret[k]].complete

\* a batch of three whose second record fails: two paths, no exception
C17_Witness ==
    /\ xOp.op = "export_multiple"
    /\ xOp.arg = ListV(<<Good, Bad, Good>>)
    /\ xOp.raised = ""
    /\ xLog[2].raised # ""
    /\ xOp.ret = <<xLog[1].path, xLog[3].path>>

\* C18: export_combined makes exactly one call of export, for a mapping that
\* holds the records in input order under datasets and, under metadata, their
\* number as total_datasets and a time as exported_at; it returns the path of
\* that export, and when that export raises, export_combined raises the same
\* exception.
C18_CombinedIsOneExport ==
    (xOp.op = "export_combined")
        => LET e        == xLog[1]
               metadata == ItemGet(e.data.v, "metadata", None)
           IN  /\ Len(xLog) = 1
               /\ e.data.t = "dict"
               /\ Keys(e.data.v) = {"metadata", "datasets"}
               /\ ItemGet(e.data.v, "datasets", None) = xOp.arg
               /\ Keys(metadata.v) = {"total_datasets", "exported_at"}
               /\ ItemGet(metadata.v, "total_datasets", None) = IntV(Len(xOp.arg.v))
               /\ ItemGet(metadata.v, "exported_at", None) = TimeV(e.at)
               /\ e.filename = "combined" /\ e.num = 0
               /\ xOp.raised = e.raised
               /\ xOp.ret = IF e.raised = "" THEN <<e.path>> ELSE << >>
               /\ (e.raised = "") => (e.path \in DOMAIN files /\ files[e.path].complete)
               /\ (e.raised = "") <=> ~ExportFails(e.data)

\* the export of the wrapper failed on its second record and export_combined
\* raised
C18_Witness ==
    /\ xOp.op = "export_combined"
    /\ xOp.arg = ListV(<<Good, Bad>>)
    /\ Len(xLog) = 1
    /\ xOp.raised = "ValueError"
    /\ xOp.ret = << >>

\* C28: whenever export returns a path without raising, a file exists at
\* that path, for every supported format and every input, a list without
\* mapping elements included.
C28_ReturnedPathExists ==
    (xOp.op = "export" /\ xOp.raised = "")
        => \A k \in 1..Len(xOp.ret) : xOp.ret[k] \in DOMAIN files

(***************************************************************************)
(* Properties of DataValidator.validate_url_data                           *)
(***************************************************************************)
\* the entry is a mapping with a target under key
HasTarget(entry, key) == entry.t = "map" /\ key \in DOMAIN entry.v

HasSchemeAndHost(target) == target.scheme # "" /\ target.netloc # ""

\* the target of an entry as written
TargetOf(entry, key) == entry.v[key].v

\* the url of the record itself; the empty URL when it has none
OwnUrl == IF "url" \in DOMAIN vData THEN vData["url"].v ELSE EmptyUrl

\* the target of an entry, resolved against the url of the record when the
\* record has one and the target does not begin with http:// or https://
Resolved(entry, key) ==
    LET target == TargetOf(entry, key)
    IN  IF OwnUrl = EmptyUrl \/ target = EmptyUrl
           \/ (target.scheme \in {"http", "https"} /\ target.netloc # "")
        THEN target
        ELSE urljoin(OwnUrl, target)

\* the lists of entries validate_url_data filters, with the key of the target
Filtered == {f \in {<<"links", "url">>, <<"images", "src">>} :
                f[1] \in DOMAIN vData /\ vData[f[1]].t = "list"}

\* the targets of the entries of a returned list, in order
TargetsOut(field, key) ==
    [k \in 1..Len(vOut[field].v) |-> vOut[field].v[k].v[key].v]

\* C19 as claimed: for every record, links and images keep exactly the
\* entries, in input order, whose target as written has a scheme and a host.
C19_KeepsAbsoluteOnly ==
    (vPc = "validated")
        => \A f \in Filtered :
              LET kept == SelectSeq(vData[f[1]].v,
                                    LAMBDA entry : /\ HasTarget(entry, f[2])
                                                   /\ HasSchemeAndHost(TargetOf(entry, f[2])))
              IN  /\ Len(vOut[f[1]].v) = Len(kept)
                  /\ \A k \in 1..Len(kept) :
                        TargetsOut(f[1], f[2])[k]
                            = [TargetOf(kept[k], f[2]) EXCEPT
                                 !.scheme = LowerScheme(TargetOf(kept[k], f[2]).scheme)]

\* C19: links and images keep exactly the entries, in input order, that are
\* mappings with a target which, resolved against the url of the record when
\* the record has one, has a scheme and a host; each kept entry carries the
\* resolved target.  For a record without a url these are the entries whose
\* target as written has a scheme and a host.
C19_KeepsResolvable ==
    (vPc = "validated")
        => \A f \in Filtered :
              LET kept == SelectSeq(vData[f[1]].v,
                                    LAMBDA entry : /\ HasTarget(entry, f[2])
                                                   /\ HasSchemeAndHost(Resolved(entry, f[2])))
              IN  /\ Len(vOut[f[1]].v) = Len(kept)
                  /\ \A k \in 1..Len(kept) :
                        TargetsOut(f[1], f[2])[k]
                            = [Resolved(kept[k], f[2]) EXCEPT
                                 !.scheme = LowerScheme(Resolved(kept[k], f[2]).scheme)]
                  /\ OwnUrl = EmptyUrl
                        => \A k \in 1..Len(kept) :
                              HasSchemeAndHost(TargetOf(kept[k], f[2]))

\* a record with a url of its own keeps the absolute link and the fragment,
\* the fragment resolved against that url
C19_Witness ==
    /\ vPc = "validated"
    /\ OwnUrl = PageUrl
    /\ "links" \in DOMAIN vData
    /\ vData["links"] = ListV(<<MapV([url |-> UrlV(Absolute)]), MapV([url |-> UrlV(Fragment)])>>)
    /\ TargetsOut("links", "url") = <<Absolute, Url("https", "a.com", "/p", "top")>>

\* C20: in the returned record a title is at most 200 characters plus the
\* ellipsis long and text_content at most the configured maximum text length
\* plus the ellipsis.
C20_TextBounded ==
    (vPc = "validated")
        => /\ "title" \in DOMAIN vOut => Len(vOut["title"].v) <= TitleMax + Len(Ellipsis)
           /\ "text_content" \in DOMAIN vOut
                 => Len(vOut["text_content"].v) <= max_text_length + Len(Ellipsis)

\* C30: validating is idempotent: the record returned for a record that
\* validate_url_data itself returned equals that record, records whose title
\* or link and image texts exceed the truncation length included.
C30_ValidateIdempotent ==
    (vPc = "revalidated") => vOut = vData

(***************************************************************************)
(* Properties of the hierarchical rendering                                *)
(***************************************************************************)
RECURSIVE KeyPathsOf(_, _)
\* the keys of a value with the keys above them, through dicts and through
\* the elements of lists
KeyPathsOf(value, above) ==
    CASE value.t = "dict" ->
           UNION {{Append(above, value.v[i].k)}
                    \cup KeyPathsOf(value.v[i].v, Append(above, value.v[i].k)) :
                  i \in 1..Len(value.v)}
      [] value.t = "list" -> UNION {KeyPathsOf(value.v[i], above) : i \in 1..Len(value.v)}
      [] OTHER -> {}

RECURSIVE ScalarsOf(_, _)
\* the scalar values of a value, each with the keys above it
ScalarsOf(value, above) ==
    CASE value.t = "dict" ->
           UNION {ScalarsOf(value.v[i].v, Append(above, value.v[i].k)) : i \in 1..Len(value.v)}
      [] value.t = "list" -> UNION {ScalarsOf(value.v[i], above) : i \in 1..Len(value.v)}
      [] OTHER -> {<<above, value>>}

\* C21: two records that differ in their keys, in where a key is nested, or
\* in a scalar value are never rendered to the same output, as text or as a
\* document.
C21_RenderingKeepsKeysAndScalars ==
    (/\ rKind # ""
     /\ \/ KeyPathsOf(rA, << >>) # KeyPathsOf(rB, << >>)
        \/ ScalarsOf(rA, << >>) # ScalarsOf(rB, << >>))
        => rOutA # rOutB

(***************************************************************************)
(* Properties of ProgressTracker                                           *)
(***************************************************************************)
\* C22: after any sequence of updates the error log has one entry for each
\* failed update, with or without an error message.
C22_ErrorLogCountsFailures ==
    Len(errors) = failed_items

\* C23: get_progress reports success_rate = 100 * completed / (completed +
\* failed) when at least one item has been processed and 0 when none has; 3
\* successes and 2 failures, in any order, give 60.
C23_SuccessRate ==
    (tOp.op = "get_progress")
        => LET rate == tOp.ret["success_rate"]
           IN  /\ rate.den > 0
               /\ (completed_items + failed_items > 0)
                     => rate.num * (completed_items + failed_items)
                          = 100 * completed_items * rate.den
               /\ (completed_items + failed_items = 0) => rate.num = 0
               /\ (completed_items = 3 /\ failed_items = 2)
                     => (rate.num = 60 /\ rate.den = 1)
               /\ tOp.ret["completed"] = completed_items
               /\ tOp.ret["failed"] = failed_items

\* get_progress after 3 successes and 2 failures that carried a message
C23_Witness ==
    /\ tOp.op = "get_progress"
    /\ completed_items = 3 /\ failed_items = 2
    /\ Len(errors) = 2 /\ errors[1].timestamp = 0
    /\ tOp.ret["success_rate"] = [num |-> 60, den |-> 1]

\* C26: every step of a tracker keeps total_items and start_time; an update
\* adds one to exactly one of completed_items and failed_items and leaves the
\* other, the error log only grows at its end, get_progress changes no field,
\* and completed_items + failed_items is the number of updates made.
C26_SingleMonotonicMutator ==
    [][/\ total_items' = total_items
       /\ start_time' = start_time
       /\ completed_items' >= completed_items
       /\ failed_items' >= failed_items
       /\ Len(errors') >= Len(errors)
       /\ SubSeq(errors', 1, Len(errors)) = errors
       /\ (tUpdates' = tUpdates + 1)
             => \/ completed_items' = completed_items + 1 /\ failed_items' = failed_items
                \/ failed_items' = failed_items + 1 /\ completed_items' = completed_items
       /\ (tUpdates' = tUpdates)
             => /\ completed_items' = completed_items
                /\ failed_items' = failed_items
                /\ errors' = errors
       /\ completed_items' + failed_items' = tUpdates'
      ]_vars

\* get_progress after two successes and two failures, one of them logged
C26_Witness ==
    /\ tOp.op = "get_progress"
    /\ completed_items = 2 /\ failed_items = 2 /\ tUpdates = 4
    /\ Len(errors) = 1

\* C29: for a tracker with total_items > 0, get_progress reports a percentage
\* between 0 and 100 and a remaining time that is not negative: the number of
\* processed items never exceeds total_items.
C29_ProgressWithinTotal ==
    (tOp.op = "get_progress" /\ total_items > 0)
        => /\ tOp.ret["total_processed"] <= total_items
           /\ tOp.ret["percentage"].num >= 0
           /\ tOp.ret["percentage"].num <= 100 * tOp.ret["percentage"].den
           /\ "estimated_remaining" \in DOMAIN tOp.ret
                 => tOp.ret["estimated_remaining"].num >= 0

====
